---- MODULE Spec2Model ----
(***************************************************************************)
(* A model of the gossip core of saorsa-gossip:                            *)
(*   - crates/pubsub/src/lib.rs      PlumtreePubSub (one node, its topics)  *)
(*   - crates/membership/src/lib.rs  HyParViewMembership and SwimDetector   *)
(* The handlers are modelled lock section by lock section: what a handler  *)
(* does while it holds the write lock is one atomic step; the frames it    *)
(* hands to the transport after releasing the lock are recorded in `last`. *)
(***************************************************************************)
EXTENDS Integers, Sequences, FiniteSets, TLC

VARIABLES
    topics,      \* PlumtreePubSub.topics: TopicId -> TopicState (present topics only)
    now,         \* the clock, in seconds (Instant::now / SystemTime::now)
    inflight,    \* publish_local calls between their two lock sections
    spawned,     \* tasks spawned by subscribe() that have not yet run
    nextSub,     \* number of channels created by subscribe() so far
    chan,        \* per channel: what was sent into it, in order
    rxDropped,   \* channels whose receiver has been dropped
    last,        \* the step taken last: operation, inputs, frames handed to the transport
    active,      \* HyParViewMembership.active
    passive,     \* HyParViewMembership.passive
    swim,        \* SwimDetector.states: PeerId -> [state, last_update]
    active_degree,   \* HyParViewMembership.active_degree, as given to new()
    passive_degree,  \* HyParViewMembership.passive_degree, as given to new()
    promoting,   \* promote calls between their two lock sections
    mlast,       \* the membership step taken last: operation, peer, views before it
    net,         \* a network of nodes: node -> the TopicState of its topic
    wire,        \* the frames handed to the transport and not yet handled
    nchan,       \* per node: what its subscriber was sent, in order
    npub,        \* publish_local calls of the nodes between their two lock sections
    published,   \* the publish calls made so far: <<node, payload>>
    sentAll,     \* every frame a node has handed to the transport so far
    overlay,     \* the overlay the network was set up as
    hview,       \* two membership nodes that shuffle: node -> [active, passive, swim]
    mwire,       \* the membership frames handed to the transport
    procs,       \* the calls and task ticks under way, each with its place and its locks
    lockq,       \* per lock: the tasks that wait for it, in the order they came
    viewed       \* what the last active_view() / passive_view() returned

pubsubVars == <<topics, now, inflight, spawned, nextSub, chan, rxDropped, last>>
memberVars == <<active, passive, swim, active_degree, passive_degree, promoting, mlast>>
netVars == <<net, wire, nchan, npub, published, sentAll, overlay>>
shuffleVars == <<hview, mwire>>
lockVars == <<procs, lockq, viewed>>
vars == <<topics, now, inflight, spawned, nextSub, chan, rxDropped, last,
          active, passive, swim, active_degree, passive_degree, promoting, mlast,
          net, wire, nchan, npub, published, sentAll, overlay, hview, mwire,
          procs, lockq, viewed>>

----------------------------------------------------------------------------
(* Bounds of the model *)

\* remote peers are 1..NumPeers; the local node is Self
NumPeers == 3
\* the clock advances in steps of TimeStep seconds up to MaxTime
TimeStep == 150
MaxTime == 450
\* publish_local calls that may be between their lock sections at once
MaxInFlight == 1
\* channels created by subscribe() on a node whose tree or publish is looked at
MaxSubs == 1
\* channels created by subscribe() at all
MaxChannels == 2
\* items held by one channel
MaxChan == 1
\* items held by one channel of the node that publishes
MaxDeliveries == 2
\* length of pending_ihave between two flushes
MaxPending == 1
\* length of the id list of one IHAVE / IWANT frame
MaxIds == 2
\* the caps the specification puts on pending_ihave (100 000) and on
\* outstanding_iwants (10 000), scaled to the ids of the model
PendingIHaveCap == 1
OutstandingIWantsCap == 1
\* ids one IHAVE carries at most (stands for MAX_IHAVE_BATCH_SIZE = 1024, lib.rs:39)
IHaveBatchCap == 2
\* length of pending_ihave between two flushes where the batches are watched
MaxFlushPending == 3
\* capacity of the LRU cache (stands for MAX_CACHE_SIZE = 10_000, lib.rs:33)
CacheCap == 2
\* stands for MIN_EAGER_DEGREE = 6 and MAX_EAGER_DEGREE = 12 (lib.rs:45-46)
MinEagerDegree == 2
MaxEagerDegree == 2
\* the peers the membership layer can learn of are 1..NumMembers
NumMembers == 4
\* the peers the failure detector hears of are 1..NumSwimPeers, on a clock that
\* advances second by second up to MaxSwimTime
NumSwimPeers == 2
MaxSwimTime == 4
\* two nodes shuffle; each knows NumShufflePassive further peers of its own, and
\* at most MaxShuffles SHUFFLE frames are sent
NumShufflePassive == 2
MaxShuffles == 2
ShuffleActiveDegree == 1
ShufflePassiveDegree == 4
\* the nodes of a network are 1..NumNodes
NumNodes == 3
\* calls and ticks that are followed through their locks at once
MaxProcs == 2
\* publish calls made in a network
MaxPublishes == 1
\* stands for the 6 below which the specification has the overlay promote peers
MinActiveDegree == 1
\* stand for DEFAULT_ACTIVE_DEGREE = 8, MAX_ACTIVE_DEGREE = 12 and
\* MAX_PASSIVE_DEGREE = 128 (membership lib.rs:20-26)
DefaultActiveDegree == 2
MaxActiveDegree == 3
MaxPassiveDegree == 3

Self == 0
Peers == 1..NumPeers
\* the peers the membership layer hands to initialize_topic_peers
Neighbours == 1..(NumPeers - 1)
Members == 1..NumMembers
\* the capacities new() is called with: below the default degree, as in the tests
\* (new(3, 10)), and above the maxima
ActiveDegrees == {DefaultActiveDegree - 1, MaxActiveDegree + 1}
PassiveDegrees == {1, MaxPassiveDegree + 1}
Topics == {"T"}
Payloads == {"x", "y"}
NoPayload == "none"
NoTopic == "absent"
NoPeer == -1
NoId == <<>>

----------------------------------------------------------------------------
(* Program constants *)

CACHE_TTL_SECS == 300
IWANT_TIMEOUT_SECS == 2
SWIM_SUSPECT_TIMEOUT_SECS == 3
DEFAULT_TTL == 10

----------------------------------------------------------------------------
(* Helpers *)

Min(a, b) == IF a < b THEN a ELSE b

RECURSIVE SetToSeq(_)
SetToSeq(S) ==
    IF S = {} THEN <<>>
    ELSE LET x == CHOOSE y \in S : \A z \in S : y <= z
         IN  <<x>> \o SetToSeq(S \ {x})

Range(s) == {s[i] : i \in 1..Len(s)}

\* what HashSet::iter().take(n) can yield: any n elements (all, if fewer)
TakeSets(S, n) == {X \in SUBSET S : Cardinality(X) = Min(n, Cardinality(S))}

\* the id lists a frame can carry
IdSeqs(ids) == UNION {[1..n -> ids] : n \in 1..MaxIds}

----------------------------------------------------------------------------
(* Message ids and frames *)

\* blake3::hash(payload): an injective image of the payload
PayloadHash(payload) == <<"blake3", payload>>

\* MessageHeader::calculate_msg_id(topic, epoch, origin, payload_hash)
MsgId(topic, epoch, origin, payload_hash) == <<topic, epoch, origin, payload_hash>>

\* PlumtreePubSub::current_epoch
current_epoch == now

\* PlumtreePubSub::calculate_msg_id
calculate_msg_id(topic, payload) ==
    MsgId(topic, current_epoch, Self, PayloadHash(payload))

Header(topic, id, kind, hop) ==
    [version |-> 1, topic |-> topic, msg_id |-> id, kind |-> kind,
     hop |-> hop, ttl |-> DEFAULT_TTL]

\* a frame handed to transport.send_to_peer, and whether the send succeeded
Frame(to, header, payload, ids, ok) ==
    [to |-> to, header |-> header, payload |-> payload, ids |-> ids, ok |-> ok]

----------------------------------------------------------------------------
(* TopicState (crates/pubsub/src/lib.rs) *)

\* TopicState::new
TopicState_new ==
    [eager_peers |-> {}, lazy_peers |-> {},
     message_cache |-> <<>>,          \* LruCache, most recently used first
     pending_ihave |-> <<>>,
     outstanding_iwants |-> <<>>,     \* HashMap: msg_id -> [peer, timestamp]
     subscribers |-> <<>>]

CacheIds(st) == {st.message_cache[i].msg_id : i \in 1..Len(st.message_cache)}

\* a has_message that finds every id: every EAGER is taken for a duplicate
has_message_always(st, msg_id) == msg_id = msg_id

\* TopicState::has_message (LruCache::contains: the order is not changed)
has_message(st, msg_id) == msg_id \in CacheIds(st)

CacheEntry(st, msg_id) ==
    LET i == CHOOSE j \in 1..Len(st.message_cache) : st.message_cache[j].msg_id = msg_id
    IN  st.message_cache[i]

\* a cache_message that keeps the id and the header but not the payload
cache_message_without_payload(st, msg_id, payload, header) ==
    [st EXCEPT !.message_cache =
        <<[msg_id |-> msg_id, payload |-> NoPayload, timestamp |-> now,
           header |-> header]>>
        \o SelectSeq(st.message_cache, LAMBDA e : e.msg_id # msg_id)]

\* TopicState::cache_message (LruCache::put: the entry becomes the most recently
\* used one; a new key put into a full cache evicts the least recently used one)
cache_message(st, msg_id, payload, header) ==
    LET cached == [msg_id |-> msg_id, payload |-> payload,
                   timestamp |-> now, header |-> header]
        others == SelectSeq(st.message_cache, LAMBDA e : e.msg_id # msg_id)
        kept   == IF Len(others) >= CacheCap
                  THEN SubSeq(others, 1, CacheCap - 1) ELSE others
    IN  [st EXCEPT !.message_cache = <<cached>> \o kept]

\* a get_message that looks an entry up without making it the most recently used
get_message_peeking(st, msg_id) == st

\* TopicState::get_message (LruCache::get: a hit becomes the most recently used)
get_message(st, msg_id) ==
    IF has_message(st, msg_id)
    THEN [st EXCEPT !.message_cache =
             <<CacheEntry(st, msg_id)>>
             \o SelectSeq(st.message_cache, LAMBDA e : e.msg_id # msg_id)]
    ELSE st

\* a clean_cache that also removes the entries that are exactly CACHE_TTL_SECS old
clean_cache_at_ttl(st) ==
    [st EXCEPT !.message_cache =
        SelectSeq(st.message_cache,
                  LAMBDA e : ~(now - e.timestamp >= CACHE_TTL_SECS))]

\* TopicState::clean_cache
clean_cache(st) ==
    [st EXCEPT !.message_cache =
        SelectSeq(st.message_cache,
                  LAMBDA e : ~(now - e.timestamp > CACHE_TTL_SECS))]

\* a prune_peer that drops the peer: it leaves the eager peers and is not made lazy
prune_peer_dropping(st, peer) ==
    [st EXCEPT !.eager_peers = @ \ {peer}]

\* TopicState::prune_peer
prune_peer(st, peer) ==
    IF peer \in st.eager_peers
    THEN [st EXCEPT !.eager_peers = @ \ {peer}, !.lazy_peers = @ \cup {peer}]
    ELSE st

\* a graft_peer that makes the peer eager whether it was lazy or not
graft_peer_inserting(st, peer) ==
    [st EXCEPT !.lazy_peers = @ \ {peer}, !.eager_peers = @ \cup {peer}]

\* TopicState::graft_peer
graft_peer(st, peer) ==
    IF peer \in st.lazy_peers
    THEN [st EXCEPT !.lazy_peers = @ \ {peer}, !.eager_peers = @ \cup {peer}]
    ELSE st

RECURSIVE GraftAll(_, _)
GraftAll(st, peers) ==
    IF peers = <<>> THEN st ELSE GraftAll(graft_peer(st, Head(peers)), Tail(peers))

RECURSIVE PruneAll(_, _)
PruneAll(st, peers) ==
    IF peers = <<>> THEN st ELSE PruneAll(prune_peer(st, Head(peers)), Tail(peers))

\* the peers maintain_degree may take from the set it iterates
DegreePicks(st) ==
    LET eager_count == Cardinality(st.eager_peers)
    IN  IF eager_count < MinEagerDegree /\ st.lazy_peers # {}
        THEN TakeSets(st.lazy_peers, MinEagerDegree - eager_count)
        ELSE IF eager_count > MaxEagerDegree
        THEN TakeSets(st.eager_peers, eager_count - MaxEagerDegree)
        ELSE {{}}

\* TopicState::maintain_degree, with `pick` the peers taken from the iterated set
maintain_degree(st, pick) ==
    LET eager_count == Cardinality(st.eager_peers)
    IN  IF eager_count < MinEagerDegree /\ st.lazy_peers # {}
        THEN GraftAll(st, SetToSeq(pick))
        ELSE IF eager_count > MaxEagerDegree
        THEN PruneAll(st, SetToSeq(pick))
        ELSE st

\* topics.entry(topic).or_insert_with(TopicState::new)
Entry(topic) == IF topic \in DOMAIN topics THEN topics[topic] ELSE TopicState_new

Put(topic, st) == [t \in (DOMAIN topics) \cup {topic} |->
                      IF t = topic THEN st ELSE topics[t]]

\* a retain that keeps every sender, also those whose receiver is gone
Retained_whatever_the_send(st) == st.subscribers

\* subscribers.retain(|tx| tx.send(data).is_ok()): a send fails when the receiver
\* is gone, and the sender is then removed
Retained(st) == SelectSeq(st.subscribers, LAMBDA s : s \notin rxDropped)

\* a delivery that puts the item at the head of the channel
Delivered_at_the_head(st, item) ==
    [s \in DOMAIN chan |->
        IF s \in Range(Retained(st)) THEN <<item>> \o chan[s] ELSE chan[s]]

Delivered(st, item) ==
    [s \in DOMAIN chan |->
        IF s \in Range(Retained(st)) THEN Append(chan[s], item) ELSE chan[s]]

\* what the environment can hold the node to: room in the channels and in the batch
ChanRoom(st) == \A s \in Range(Retained(st)) : Len(chan[s]) < MaxChan
PendingRoom(st) == Len(st.pending_ihave) < MaxPending
DeliveryRoom(st) == \A s \in Range(Retained(st)) : Len(chan[s]) < MaxDeliveries

\* A loop `for peer in targets { send_to_peer(peer, ..).await? }`: the targets are
\* visited in the set's iteration order and the first failed send ends the loop.
SendRuns(targets) ==
    {[done |-> targets, failed |-> NoPeer]}
    \cup {[done |-> S, failed |-> d] : <<S, d>> \in
            {x \in (SUBSET targets) \X targets : x[2] \notin x[1]}}

RunFrames(run, header, payload) ==
    [i \in 1..Cardinality(run.done) |->
        Frame(SetToSeq(run.done)[i], header, payload, <<>>, TRUE)]
    \o (IF run.failed = NoPeer THEN <<>>
        ELSE <<Frame(run.failed, header, payload, <<>>, FALSE)>>)

\* `last`: the operation of the step taken last, its inputs, the topic's state and
\* the channels before it, the frames it handed to the transport, and its result
NoLast == [op |-> "init", topic |-> NoTopic, from |-> NoPeer, msg_id |-> NoId,
           ids |-> <<>>, payload |-> NoPayload, pre |-> <<>>, pre_chan |-> <<>>,
           targets |-> {}, sent |-> <<>>, ok |-> TRUE, hop |-> 0]

\* the topic's state as a sequence of at most one element: empty when it is absent
Pre(topic) == IF topic \in DOMAIN topics THEN <<topics[topic]>> ELSE <<>>

Last(op, topic, from, msg_id, ids, payload, sent, ok) ==
    [op |-> op, topic |-> topic, from |-> from, msg_id |-> msg_id, ids |-> ids,
     payload |-> payload, pre |-> Pre(topic), pre_chan |-> chan, targets |-> {},
     sent |-> sent, ok |-> ok, hop |-> 0]

----------------------------------------------------------------------------
(* The messages the environment can hand to the node *)

\* the id of the message a peer `origin` published with `payload` in epoch 0
RemoteId(topic, origin, payload) == MsgId(topic, 0, origin, PayloadHash(payload))

\* the id of the message this node published with `payload` in epoch `epoch`
OwnId(topic, epoch, payload) == MsgId(topic, epoch, Self, PayloadHash(payload))

IdPayload(msg_id) == msg_id[4][2]

\* an EAGER frame as a peer sends it: the payload the id was computed from
EagerMsg(topic, msg_id, hop) ==
    [header |-> Header(topic, msg_id, "Eager", hop), payload |-> IdPayload(msg_id)]

\* a frame of kind EAGER that carries no payload
BareMsg(topic, msg_id, hop) ==
    [header |-> Header(topic, msg_id, "Eager", hop), payload |-> NoPayload]

----------------------------------------------------------------------------
(* PlumtreePubSub: operations *)

\* publish_local, first lock section: cache the message, collect the eager peers
publish_begin(topic, payload) ==
    LET msg_id == calculate_msg_id(topic, payload)
        header == Header(topic, msg_id, "Eager", 0)
        st     == cache_message(Entry(topic), msg_id, payload, header)
        call   == [topic |-> topic, msg_id |-> msg_id, payload |-> payload,
                   header |-> header, eager_peers |-> st.eager_peers]
    IN  /\ Cardinality(inflight) < MaxInFlight
        /\ call \notin inflight
        /\ topics' = Put(topic, st)
        /\ inflight' = inflight \cup {call}
        /\ last' = Last("publish_begin", topic, Self, msg_id, <<>>, payload, <<>>, TRUE)
        /\ UNCHANGED <<now, spawned, nextSub, chan, rxDropped>>

\* publish_local, the sends and the second lock section: a failed send returns
\* the error; otherwise batch the id and deliver to the local subscribers
publish_finish(call, run) ==
    LET sent == RunFrames(run, call.header, call.payload)
        topic == call.topic
        done(ok) == [Last("publish", topic, Self, call.msg_id, <<>>, call.payload,
                          sent, ok) EXCEPT !.targets = call.eager_peers]
    IN  /\ inflight' = inflight \ {call}
        /\ IF run.failed # NoPeer
           THEN /\ last' = done(FALSE)
                /\ UNCHANGED <<topics, chan>>
           ELSE IF topic \in DOMAIN topics
           THEN LET st == topics[topic]
                    item == [from |-> Self, payload |-> call.payload,
                             msg_id |-> call.msg_id]
                IN  /\ topics' = Put(topic,
                          [st EXCEPT !.pending_ihave = Append(@, call.msg_id),
                                     !.subscribers = Retained(st)])
                    /\ chan' = Delivered(st, item)
                    /\ last' = done(TRUE)
           ELSE /\ last' = done(TRUE)
                /\ UNCHANGED <<topics, chan>>
        /\ UNCHANGED <<now, spawned, nextSub, rxDropped>>

\* handle_eager
handle_eager(from, topic, message) ==
    LET msg_id == message.header.msg_id
        st0    == Entry(topic)
        done(sent, ok) ==
            [Last("handle_eager", topic, from, msg_id, <<>>, message.payload, sent, ok)
                EXCEPT !.hop = message.header.hop]
    IN  /\ UNCHANGED <<now, inflight, spawned, nextSub, rxDropped>>
        /\ IF has_message(st0, msg_id)
           THEN \* duplicate: PRUNE the sender
                /\ topics' = Put(topic, prune_peer(st0, from))
                /\ last' = done(<<>>, TRUE)
                /\ UNCHANGED chan
           ELSE IF message.payload = NoPayload
           THEN \* "EAGER missing payload"
                /\ topics' = Put(topic, st0)
                /\ last' = done(<<>>, FALSE)
                /\ UNCHANGED chan
           ELSE LET st1 == cache_message(st0, msg_id, message.payload, message.header)
                    item == [from |-> from, payload |-> message.payload,
                             msg_id |-> msg_id]
                    eager_peers == st1.eager_peers \ {from}
                    st2 == [st1 EXCEPT !.subscribers = Retained(st1),
                                       !.pending_ihave = Append(@, msg_id)]
                IN  /\ topics' = Put(topic, st2)
                    /\ chan' = Delivered(st1, item)
                    /\ \E run \in SendRuns(eager_peers) :
                         last' = done(RunFrames(run, message.header, message.payload),
                                      run.failed = NoPeer)

\* an ihave_loop without the check for an outstanding request: an id that is not
\* cached is requested again, from the peer that advertised it last
RECURSIVE ihave_loop_asking_again(_, _, _, _)
ihave_loop_asking_again(st, from, msg_ids, requested) ==
    IF msg_ids = <<>> THEN [st |-> st, requested |-> requested]
    ELSE LET msg_id == Head(msg_ids)
         IN  IF has_message(st, msg_id)
             THEN ihave_loop_asking_again(st, from, Tail(msg_ids), requested)
             ELSE ihave_loop_asking_again(
                    [st EXCEPT !.outstanding_iwants =
                        (msg_id :> [peer |-> from, timestamp |-> now]) @@ @],
                    from, Tail(msg_ids), Append(requested, msg_id))

\* handle_ihave, the loop over msg_ids: [st, requested]
RECURSIVE ihave_loop(_, _, _, _)
ihave_loop(st, from, msg_ids, requested) ==
    IF msg_ids = <<>> THEN [st |-> st, requested |-> requested]
    ELSE LET msg_id == Head(msg_ids)
         IN  IF has_message(st, msg_id)
             THEN ihave_loop(st, from, Tail(msg_ids), requested)
             ELSE IF msg_id \in DOMAIN st.outstanding_iwants
             THEN ihave_loop(st, from, Tail(msg_ids), requested)
             ELSE ihave_loop(
                    [st EXCEPT !.outstanding_iwants =
                        (msg_id :> [peer |-> from, timestamp |-> now]) @@ @],
                    from, Tail(msg_ids), Append(requested, msg_id))

\* handle_ihave
handle_ihave(from, topic, msg_ids) ==
    LET r == ihave_loop(Entry(topic), from, msg_ids, <<>>)
    IN  /\ topics' = Put(topic, r.st)
        /\ IF r.requested # <<>>
           THEN \E ok \in BOOLEAN :
                  last' = Last("handle_ihave", topic, from, NoId, msg_ids, NoPayload,
                               <<Frame(from, Header(topic, r.requested[1], "IWant", 0),
                                       NoPayload, r.requested, ok)>>,
                               ok)
           ELSE last' = Last("handle_ihave", topic, from, NoId, msg_ids, NoPayload,
                             <<>>, TRUE)
        /\ UNCHANGED <<now, inflight, spawned, nextSub, chan, rxDropped>>

\* handle_iwant, the loop over msg_ids: [st, to_send]
RECURSIVE iwant_loop(_, _, _, _)
iwant_loop(st, from, msg_ids, to_send) ==
    IF msg_ids = <<>> THEN [st |-> st, to_send |-> to_send]
    ELSE LET msg_id == Head(msg_ids)
         IN  IF has_message(st, msg_id)
             THEN iwant_loop(graft_peer(get_message(st, msg_id), from), from,
                             Tail(msg_ids), Append(to_send, CacheEntry(st, msg_id)))
             ELSE iwant_loop(st, from, Tail(msg_ids), to_send)

\* handle_iwant; `n` sends are made, and the n-th fails when `ok` is false
handle_iwant(from, topic, msg_ids) ==
    LET r == iwant_loop(Entry(topic), from, msg_ids, <<>>)
        frames(n, ok) ==
            [i \in 1..n |->
                Frame(from, r.to_send[i].header, r.to_send[i].payload, <<>>,
                      ok \/ i < n)]
    IN  /\ topics' = Put(topic, r.st)
        /\ \E n \in 0..Len(r.to_send), ok \in BOOLEAN :
             /\ ok => n = Len(r.to_send)
             /\ ~ok => n >= 1
             /\ last' = Last("handle_iwant", topic, from, NoId, msg_ids, NoPayload,
                             frames(n, ok), ok)
        /\ UNCHANGED <<now, inflight, spawned, nextSub, chan, rxDropped>>

\* a batch that takes all of pending_ihave
ihave_batch_whole(st) == st.pending_ihave

\* the batch one flush takes from pending_ihave
ihave_batch(st) ==
    SubSeq(st.pending_ihave, 1, Min(Len(st.pending_ihave), IHaveBatchCap))

IHaveFrames(topic, st, down) ==
    IF st.pending_ihave = <<>> THEN <<>>
    ELSE [i \in 1..Cardinality(st.lazy_peers) |->
            Frame(SetToSeq(st.lazy_peers)[i],
                  Header(topic, ihave_batch(st)[1], "IHave", 0),
                  NoPayload, ihave_batch(st), SetToSeq(st.lazy_peers)[i] \notin down)]

RECURSIVE FlushFrames(_, _)
FlushFrames(ts, down) ==
    IF ts = <<>> THEN <<>>
    ELSE IHaveFrames(Head(ts), topics[Head(ts)], down) \o FlushFrames(Tail(ts), down)

TopicSeq ==
    LET RECURSIVE seq(_)
        seq(S) == IF S = {} THEN <<>>
                  ELSE LET t == CHOOSE x \in S : TRUE IN <<t>> \o seq(S \ {t})
    IN  seq(DOMAIN topics)

LazyPeers == UNION {topics[t].lazy_peers : t \in DOMAIN topics}

\* one tick of the task spawn_ihave_flusher starts; sends to the peers in `down` fail
ihave_flusher(down) ==
    /\ \E t \in DOMAIN topics : topics[t].pending_ihave # <<>>
    /\ topics' = [t \in DOMAIN topics |->
                    [topics[t] EXCEPT !.pending_ihave =
                        SubSeq(@, Len(ihave_batch(topics[t])) + 1, Len(@))]]
    /\ last' = [NoLast EXCEPT !.op = "ihave_flusher", !.sent = FlushFrames(TopicSeq, down)]
    /\ UNCHANGED <<now, inflight, spawned, nextSub, chan, rxDropped>>

\* one tick of the task spawn_cache_cleaner starts
cache_cleaner ==
    /\ topics' = [t \in DOMAIN topics |-> clean_cache(topics[t])]
    /\ last' = [NoLast EXCEPT !.op = "cache_cleaner"]
    /\ UNCHANGED <<now, inflight, spawned, nextSub, chan, rxDropped>>

\* one tick of the task spawn_degree_maintainer starts
degree_maintainer ==
    /\ \E picks \in [DOMAIN topics -> SUBSET Peers] :
         /\ \A t \in DOMAIN topics : picks[t] \in DegreePicks(topics[t])
         /\ topics' = [t \in DOMAIN topics |-> maintain_degree(topics[t], picks[t])]
    /\ last' = [NoLast EXCEPT !.op = "degree_maintainer"]
    /\ UNCHANGED <<now, inflight, spawned, nextSub, chan, rxDropped>>

\* initialize_topic_peers
initialize_topic_peers(topic, peers) ==
    /\ topics' = Put(topic, [Entry(topic) EXCEPT !.eager_peers = @ \cup peers])
    /\ last' = [Last("initialize_topic_peers", topic, NoPeer, NoId, <<>>, NoPayload,
                     <<>>, TRUE) EXCEPT !.ids = SetToSeq(peers)]
    /\ UNCHANGED <<now, inflight, spawned, nextSub, chan, rxDropped>>

\* PubSub::subscribe: the channel is created and returned, a task is spawned
subscribe(topic) ==
    /\ nextSub < MaxChannels
    /\ nextSub' = nextSub + 1
    /\ chan' = Append(chan, <<>>)
    /\ spawned' = spawned \cup {[sub |-> nextSub + 1, topic |-> topic]}
    /\ last' = Last("subscribe", topic, NoPeer, NoId, <<>>, NoPayload, <<>>, TRUE)
    /\ UNCHANGED <<topics, now, inflight, rxDropped>>

\* the task spawned by subscribe runs: the sender is pushed to subscribers
subscribe_task(task) ==
    /\ spawned' = spawned \ {task}
    /\ topics' = Put(task.topic,
                     [Entry(task.topic) EXCEPT !.subscribers = Append(@, task.sub)])
    /\ last' = Last("subscribe_task", task.topic, NoPeer, NoId, <<>>, NoPayload,
                    <<>>, TRUE)
    /\ UNCHANGED <<now, inflight, nextSub, chan, rxDropped>>

\* the caller drops the receiver of a channel
drop_receiver(s) ==
    /\ s \notin rxDropped
    /\ rxDropped' = rxDropped \cup {s}
    /\ last' = [NoLast EXCEPT !.op = "drop_receiver"]
    /\ UNCHANGED <<topics, now, inflight, spawned, nextSub, chan>>

\* PubSub::unsubscribe
unsubscribe(topic) ==
    /\ topic \in DOMAIN topics
    /\ topics' = [t \in (DOMAIN topics) \ {topic} |-> topics[t]]
    /\ last' = Last("unsubscribe", topic, NoPeer, NoId, <<>>, NoPayload, <<>>, TRUE)
    /\ UNCHANGED <<now, inflight, spawned, nextSub, chan, rxDropped>>

\* time passes
advance_time ==
    /\ now + TimeStep <= MaxTime
    /\ now' = now + TimeStep
    /\ last' = [NoLast EXCEPT !.op = "advance_time"]
    /\ UNCHANGED <<topics, inflight, spawned, nextSub, chan, rxDropped>>

----------------------------------------------------------------------------
(* The pub/sub node *)

PubSubInit ==
    /\ topics = <<>>
    /\ now = 0
    /\ inflight = {}
    /\ spawned = {}
    /\ nextSub = 0
    /\ chan = <<>>
    /\ rxDropped = {}
    /\ last = NoLast

----------------------------------------------------------------------------
(* SwimDetector *)

\* SwimDetector::mark_alive
mark_alive(states, peer) ==
    [p \in (DOMAIN states) \cup {peer} |->
        IF p = peer THEN [state |-> "Alive", last_update |-> now] ELSE states[p]]

\* SwimDetector::mark_dead
mark_dead(states, peer) ==
    [p \in (DOMAIN states) \cup {peer} |->
        IF p = peer THEN [state |-> "Dead", last_update |-> now] ELSE states[p]]

\* mark_suspect without its look at the state the peer is in
mark_suspect_any_state(states, peer) ==
    IF peer \in DOMAIN states
    THEN [states EXCEPT ![peer] = [state |-> "Suspect", last_update |-> now]]
    ELSE states

\* SwimDetector::mark_suspect
mark_suspect(states, peer) ==
    IF peer \in DOMAIN states /\ states[peer].state = "Alive"
    THEN [states EXCEPT ![peer] = [state |-> "Suspect", last_update |-> now]]
    ELSE states

\* SwimDetector::get_state: the state of a peer, or "None"
get_state(states, peer) ==
    IF peer \in DOMAIN states THEN states[peer].state ELSE "None"

\* SwimDetector::get_peers_in_state
get_peers_in_state(states, state) ==
    {peer \in DOMAIN states : states[peer].state = state}

\* every suspect, timed out or not
to_mark_dead_at_once(states) ==
    {peer \in DOMAIN states : states[peer].state = "Suspect"}

\* the suspects the sweeper finds timed out
to_mark_dead(states) ==
    {peer \in DOMAIN states :
        /\ states[peer].state = "Suspect"
        /\ now - states[peer].last_update > SWIM_SUSPECT_TIMEOUT_SECS}

----------------------------------------------------------------------------
(* HyParViewMembership: operations *)

MLast(op, peer) ==
    [op |-> op, peer |-> peer, pre_active |-> active, pre_passive |-> passive]

\* the body of add_active: with the view full one peer of it, any, makes room and
\* goes to the passive view if that has room; then the peer is inserted and marked
\* alive
add_active_body(peer) ==
    /\ \E to_demote \in (IF Cardinality(active) >= active_degree /\ active # {}
                         THEN active ELSE {NoPeer}) :
         /\ active' = (active \ {to_demote}) \cup {peer}
         /\ passive' = IF to_demote # NoPeer /\ Cardinality(passive) < passive_degree
                       THEN passive \cup {to_demote} ELSE passive
    /\ swim' = mark_alive(swim, peer)

\* Membership::add_active
add_active(peer) ==
    /\ add_active_body(peer)
    /\ mlast' = MLast("add_active", peer)
    /\ UNCHANGED <<active_degree, passive_degree, promoting>>

\* Membership::remove_active
remove_active(peer) ==
    /\ active' = active \ {peer}
    /\ swim' = IF peer \in active THEN mark_dead(swim, peer) ELSE swim
    /\ mlast' = MLast("remove_active", peer)
    /\ UNCHANGED <<passive, active_degree, passive_degree, promoting>>

\* Membership::promote, first lock section: the peer leaves the passive view
promote_begin(peer) ==
    /\ Cardinality(promoting) < MaxInFlight
    /\ peer \notin promoting
    /\ passive' = passive \ {peer}
    /\ promoting' = IF peer \in passive THEN promoting \cup {peer} ELSE promoting
    /\ mlast' = MLast("promote_begin", peer)
    /\ UNCHANGED <<active, swim, active_degree, passive_degree>>

\* Membership::promote, the call of add_active for a peer that was passive
promote_finish(peer) ==
    /\ peer \in promoting
    /\ promoting' = promoting \ {peer}
    /\ add_active_body(peer)
    /\ mlast' = MLast("promote", peer)
    /\ UNCHANGED <<active_degree, passive_degree>>

\* what a tick of the task spawn_degree_maintenance_task does to the views, under
\* both locks: the counts are taken first; peers are promoted up to
\* DEFAULT_ACTIVE_DEGREE, demoted above MAX_ACTIVE_DEGREE, and the passive view is
\* trimmed
degree_maintenance_views ==
    LET active_count == Cardinality(active)
        passive_count == Cardinality(passive)
    IN  \E up \in (IF active_count < DefaultActiveDegree /\ passive # {}
                      THEN TakeSets(passive, DefaultActiveDegree - active_count)
                      ELSE {{}}) :
          LET a1 == active \cup up
              p1 == passive \ up
          IN  \E down \in (IF active_count > MaxActiveDegree
                           THEN TakeSets(a1, active_count - MaxActiveDegree)
                           ELSE {{}}) :
                \E kept \in TakeSets(down, IF Cardinality(p1) < MaxPassiveDegree
                                           THEN MaxPassiveDegree - Cardinality(p1)
                                           ELSE 0) :
                  LET a2 == a1 \ down
                      p2 == p1 \cup kept
                  IN  \E out \in (IF passive_count > MaxPassiveDegree
                                  THEN TakeSets(p2, passive_count - MaxPassiveDegree)
                                  ELSE {{}}) :
                        /\ active' = a2
                        /\ passive' = p2 \ out

\* one tick of the task spawn_degree_maintenance_task
degree_maintenance ==
    /\ degree_maintenance_views
    /\ mlast' = MLast("degree_maintenance", NoPeer)
    /\ UNCHANGED <<swim, active_degree, passive_degree, promoting>>

----------------------------------------------------------------------------
(* The node after construction *)

NoMLast == [op |-> "init", peer |-> NoPeer, pre_active |-> {}, pre_passive |-> {}]

\* HyParViewMembership::new(active_degree, passive_degree, transport)
HyParViewMembership_new(ad, pd) ==
    /\ active = {}
    /\ passive = {}
    /\ swim = <<>>
    /\ active_degree = ad
    /\ passive_degree = pd
    /\ promoting = {}
    /\ mlast = NoMLast

\* the membership layer of a node whose pub/sub layer is looked at
MemberIdle == HyParViewMembership_new(DefaultActiveDegree, MaxPassiveDegree)

\* no network of nodes is looked at
NetIdle ==
    /\ net = <<>>
    /\ wire = {}
    /\ nchan = <<>>
    /\ npub = {}
    /\ published = {}
    /\ sentAll = {}
    /\ overlay = "none"

\* no pair of shuffling nodes is looked at
ShuffleIdle ==
    /\ hview = <<>>
    /\ mwire = {}

\* the locks of the node: the topics map of PlumtreePubSub, the two views of
\* HyParViewMembership and the states map of SwimDetector
Locks == {"topics", "active", "passive", "states"}

NoView == [op |-> "none", result |-> {}, content |-> {}]

\* no call or tick is followed through its locks
LockIdle ==
    /\ procs = <<>>
    /\ lockq = [l \in Locks |-> <<>>]
    /\ viewed = NoView

Init == PubSubInit /\ MemberIdle /\ NetIdle /\ ShuffleIdle /\ LockIdle

\* Spec: the handlers that shape the tree of one topic, on a standing clock.
\* Peer 1 has published "x" and "y"; every peer may send them as EAGER frames and
\* ask for them with IWANT frames; the membership layer hands over Neighbours.
SpecIds(t) == {RemoteId(t, 1, "x"), RemoteId(t, 1, "y")}

Next ==
    /\ UNCHANGED <<memberVars, netVars, shuffleVars, lockVars>>
    /\ \/ \E from \in Peers, t \in Topics : \E id \in SpecIds(t) :
             /\ has_message(Entry(t), id) \/ (ChanRoom(Entry(t)) /\ PendingRoom(Entry(t)))
             /\ handle_eager(from, t, EagerMsg(t, id, 0))
       \/ \E from \in Neighbours, t \in Topics : \E ids \in IdSeqs(SpecIds(t)) :
             handle_iwant(from, t, ids)
       \/ \E down \in SUBSET LazyPeers : ihave_flusher(down)
       \/ degree_maintainer
       \/ \E t \in Topics, peers \in SUBSET Neighbours : initialize_topic_peers(t, peers)
       \/ \E t \in Topics : nextSub < MaxSubs /\ subscribe(t)
       \/ \E task \in spawned : subscribe_task(task)

Spec == Init /\ [][Next]_vars

----------------------------------------------------------------------------
(* Properties of the tree handlers (checked under Spec) *)

\* the topic's state the last step started from (a fresh one when it was absent)
PreState == IF last.pre = <<>> THEN TopicState_new ELSE last.pre[1]

\* the topic's state the last step left (a fresh one when the topic is absent)
PostState == IF last.topic \in DOMAIN topics THEN topics[last.topic] ELSE TopicState_new

IsEagerStep == last.op = "handle_eager"
IsDuplicate == IsEagerStep /\ has_message(PreState, last.msg_id)
IsFirstTime == IsEagerStep /\ ~has_message(PreState, last.msg_id) /\ last.payload # NoPayload

\* the channels after a delivery of `item` to the subscribers `subs`
AfterDelivery(subs, item) ==
    [s \in DOMAIN last.pre_chan |->
        IF s \in subs THEN Append(last.pre_chan[s], item) ELSE last.pre_chan[s]]

\* the frames of kind `kind` among the frames handed to the transport
FramesOfKind(kind) == SelectSeq(last.sent, LAMBDA f : f.header.kind = kind)

\* C2: in every reachable state the eager and the lazy peers of every topic are
\* disjoint.
C2_EagerLazyDisjoint ==
    \A t \in DOMAIN topics : topics[t].eager_peers \cap topics[t].lazy_peers = {}

\* C6: handle_eager(from, msg) for an id not in the cache inserts the message into
\* the cache, delivers it once to every subscriber of the topic, forwards it as
\* EAGER to every eager peer except `from` and to nobody else, appends the id once
\* to pending_ihave and leaves the eager and the lazy set unchanged.
C6_FirstTimeEager ==
    IsFirstTime =>
        /\ has_message(PostState, last.msg_id)
        /\ CacheEntry(PostState, last.msg_id).payload = last.payload
        /\ chan = AfterDelivery(Range(PreState.subscribers),
                                [from |-> last.from, payload |-> last.payload,
                                 msg_id |-> last.msg_id])
        /\ {f.to : f \in Range(last.sent)} = PreState.eager_peers \ {last.from}
        /\ Len(last.sent) = Cardinality(PreState.eager_peers \ {last.from})
        /\ \A f \in Range(last.sent) :
              /\ f.header.kind = "Eager"
              /\ f.header.msg_id = last.msg_id
              /\ f.payload = last.payload
        /\ PostState.pending_ihave = Append(PreState.pending_ihave, last.msg_id)
        /\ PostState.eager_peers = PreState.eager_peers
        /\ PostState.lazy_peers = PreState.lazy_peers

\* C6 without its forwarding clause on a run of sends that a failure ended: what
\* the code does do for a first-time EAGER
FirstTimeEagerAsCoded ==
    IsFirstTime =>
        /\ has_message(PostState, last.msg_id)
        /\ chan = AfterDelivery(Range(PreState.subscribers),
                                [from |-> last.from, payload |-> last.payload,
                                 msg_id |-> last.msg_id])
        /\ {f.to : f \in Range(last.sent)} \subseteq PreState.eager_peers \ {last.from}
        /\ last.ok => {f.to : f \in Range(last.sent)} = PreState.eager_peers \ {last.from}
        /\ PostState.pending_ihave = Append(PreState.pending_ihave, last.msg_id)
        /\ PostState.eager_peers = PreState.eager_peers
        /\ PostState.lazy_peers = PreState.lazy_peers

\* C7: handle_eager(from, msg) for an id already in the cache delivers nothing,
\* forwards nothing, leaves the cache and pending_ihave as they were, and a sender
\* that was an eager peer is a lazy peer and no eager peer afterwards; a first-time
\* EAGER leaves its id in the cache, so that the same EAGER received again is such a
\* duplicate.
C7_DuplicateEager ==
    /\ IsDuplicate =>
          /\ chan = last.pre_chan
          /\ last.sent = <<>>
          /\ PostState.message_cache = PreState.message_cache
          /\ PostState.pending_ihave = PreState.pending_ihave
          /\ PostState.subscribers = PreState.subscribers
          /\ last.from \in PreState.eager_peers =>
                /\ last.from \in PostState.lazy_peers
                /\ last.from \notin PostState.eager_peers
    /\ IsFirstTime => has_message(PostState, last.msg_id)

\* C7's case: a duplicate from an eager peer, with another eager peer to forward
\* to, a subscriber registered and an id batched
C7_Witness ==
    /\ IsDuplicate
    /\ last.from \in PreState.eager_peers
    /\ PreState.eager_peers \ {last.from} # {}
    /\ PreState.subscribers # <<>>
    /\ PreState.pending_ihave # <<>>
    /\ last.from \in PostState.lazy_peers

\* C8: a duplicate EAGER is answered with exactly one PRUNE(msg_id) to its sender,
\* a first-time EAGER with none.
C8_PruneSent ==
    /\ IsDuplicate =>
          /\ Len(FramesOfKind("Prune")) = 1
          /\ FramesOfKind("Prune")[1].to = last.from
          /\ FramesOfKind("Prune")[1].header.msg_id = last.msg_id
    /\ IsFirstTime => FramesOfKind("Prune") = <<>>

\* the requested ids that were in the cache, in the order of the request
RECURSIVE CachedOf(_, _)
CachedOf(st, ids) ==
    IF ids = <<>> THEN <<>>
    ELSE (IF has_message(st, Head(ids)) THEN <<Head(ids)>> ELSE <<>>)
         \o CachedOf(st, Tail(ids))

\* C10: handle_iwant(from, ids) sends one EAGER with the cached header and
\* payload to `from` for every requested id that is in the cache, and moves `from`
\* from lazy to eager if it was lazy; when no requested id is in the cache nothing
\* is sent and no peer set changes.
C10_IWantReply ==
    last.op = "handle_iwant" =>
        LET hits == CachedOf(PreState, last.ids)
        IN  /\ Len(last.sent) = Len(hits)
            /\ \A i \in 1..Len(hits) :
                  /\ i <= Len(last.sent)
                  /\ last.sent[i].to = last.from
                  /\ last.sent[i].header = CacheEntry(PreState, hits[i]).header
                  /\ last.sent[i].payload = CacheEntry(PreState, hits[i]).payload
            /\ IF hits # <<>> /\ last.from \in PreState.lazy_peers
               THEN /\ PostState.eager_peers = PreState.eager_peers \cup {last.from}
                    /\ PostState.lazy_peers = PreState.lazy_peers \ {last.from}
               ELSE /\ PostState.eager_peers = PreState.eager_peers
                    /\ PostState.lazy_peers = PreState.lazy_peers

\* C10 for the calls in which no send failed: what the code does do
IWantReplyAsCoded ==
    (last.op = "handle_iwant" /\ last.ok) =>
        LET hits == CachedOf(PreState, last.ids)
        IN  /\ Len(last.sent) = Len(hits)
            /\ \A i \in 1..Len(hits) :
                  /\ last.sent[i].to = last.from
                  /\ last.sent[i].header = CacheEntry(PreState, hits[i]).header
                  /\ last.sent[i].payload = CacheEntry(PreState, hits[i]).payload
            /\ IF hits # <<>> /\ last.from \in PreState.lazy_peers
               THEN /\ PostState.eager_peers = PreState.eager_peers \cup {last.from}
                    /\ PostState.lazy_peers = PreState.lazy_peers \ {last.from}
               ELSE /\ PostState.eager_peers = PreState.eager_peers
                    /\ PostState.lazy_peers = PreState.lazy_peers

----------------------------------------------------------------------------
(* The node that publishes: publish_local in its two lock sections, with
   subscribers coming and going, peers being added and the batch being flushed *)

NextPublish ==
    /\ UNCHANGED <<memberVars, netVars, shuffleVars, lockVars>>
    /\ \/ \E t \in Topics, payload \in Payloads :
             /\ DeliveryRoom(Entry(t)) /\ PendingRoom(Entry(t))
             /\ publish_begin(t, payload)
       \/ \E call \in inflight : \E run \in SendRuns(call.eager_peers) :
             publish_finish(call, run)
       \/ \E down \in SUBSET LazyPeers : ihave_flusher(down)
       \/ \E t \in Topics, peers \in SUBSET Neighbours : initialize_topic_peers(t, peers)
       \/ \E t \in Topics : nextSub < MaxSubs /\ subscribe(t)
       \/ \E task \in spawned : subscribe_task(task)
       \/ \E t \in Topics : unsubscribe(t)

SpecPublish == Init /\ [][NextPublish]_vars

\* C1: each local subscriber receives a given MessageId at most once, whether by
\* the node's own publish or by the receipt of an EAGER.
C1_DeliveredAtMostOnce ==
    \A s \in DOMAIN chan : \A i, j \in 1..Len(chan[s]) :
        i < j => chan[s][i].msg_id # chan[s][j].msg_id

\* C5: when publish(topic, payload) has returned, the id is in the cache and was
\* appended once to pending_ihave, the payload was delivered once to every local
\* subscriber, and an EAGER frame was sent to every peer that was an eager peer of
\* the topic at the time of the call.
C5_PublishEffects ==
    last.op = "publish" =>
        /\ has_message(PostState, last.msg_id)
        /\ PostState.pending_ihave = Append(PreState.pending_ihave, last.msg_id)
        /\ chan = AfterDelivery(Range(PreState.subscribers),
                                [from |-> Self, payload |-> last.payload,
                                 msg_id |-> last.msg_id])
        /\ {f.to : f \in Range(last.sent)} = last.targets
        /\ Len(last.sent) = Cardinality(last.targets)
        /\ \A f \in Range(last.sent) :
              /\ f.header.kind = "Eager"
              /\ f.header.hop = 0
              /\ f.header.msg_id = last.msg_id
              /\ f.payload = last.payload

\* C5 for the calls in which no send failed and during which the topic was not
\* removed (the cached message is still there): what the code does do
PublishEffectsAsCoded ==
    (last.op = "publish" /\ last.ok /\ has_message(PreState, last.msg_id)) =>
        /\ has_message(PostState, last.msg_id)
        /\ PostState.pending_ihave = Append(PreState.pending_ihave, last.msg_id)
        /\ chan = AfterDelivery(Range(PreState.subscribers),
                                [from |-> Self, payload |-> last.payload,
                                 msg_id |-> last.msg_id])
        /\ {f.to : f \in Range(last.sent)} = last.targets
        /\ Len(last.sent) = Cardinality(last.targets)

----------------------------------------------------------------------------
(* The node that is told of messages: IHAVE from its neighbours, while messages
   arrive, the batch is flushed, time passes and the cache is cleaned *)

NextIHave ==
    /\ UNCHANGED <<memberVars, netVars, shuffleVars, lockVars>>
    /\ \/ \E from \in Neighbours, t \in Topics : \E ids \in IdSeqs(SpecIds(t)) :
             handle_ihave(from, t, ids)
       \/ \E t \in Topics : \E id \in SpecIds(t) :
             /\ has_message(Entry(t), id) \/ PendingRoom(Entry(t))
             /\ handle_eager(1, t, EagerMsg(t, id, 0))
       \/ \E down \in SUBSET LazyPeers : ihave_flusher(down)
       \/ advance_time
       \/ cache_cleaner

SpecIHave == Init /\ [][NextIHave]_vars

\* the advertised ids that were neither cached nor outstanding, each once, in the
\* order in which they were advertised first
Wanted ==
    LET fresh(i) == /\ ~has_message(PreState, last.ids[i])
                    /\ last.ids[i] \notin DOMAIN PreState.outstanding_iwants
                    /\ \A j \in 1..(i - 1) : last.ids[j] # last.ids[i]
        RECURSIVE from(_)
        from(i) == IF i > Len(last.ids) THEN <<>>
                   ELSE (IF fresh(i) THEN <<last.ids[i]>> ELSE <<>>) \o from(i + 1)
    IN  from(1)

\* C9: handle_ihave(from, ids) gives exactly the ids that are neither in the cache
\* nor outstanding an entry (from, now) in outstanding_iwants and requests exactly
\* them in one IWANT handed to the transport for `from`; the entries of the ids that
\* were outstanding stay as they were (the peer asked first stays the one asked),
\* cached ids get no entry, and nothing else of the topic changes.
C9_IHaveRequests ==
    last.op = "handle_ihave" =>
        LET old == PreState.outstanding_iwants
            new == PostState.outstanding_iwants
        IN  /\ DOMAIN new = DOMAIN old \cup Range(Wanted)
            /\ \A id \in DOMAIN old : new[id] = old[id]
            /\ \A id \in Range(Wanted) :
                  /\ new[id] = [peer |-> last.from, timestamp |-> now]
                  /\ ~has_message(PreState, id)
            /\ IF Wanted = <<>> THEN last.sent = <<>>
               ELSE /\ Len(last.sent) = 1
                    /\ last.sent[1].to = last.from
                    /\ last.sent[1].header.kind = "IWant"
                    /\ last.sent[1].ids = Wanted
            /\ PostState.message_cache = PreState.message_cache
            /\ PostState.eager_peers = PreState.eager_peers
            /\ PostState.lazy_peers = PreState.lazy_peers
            /\ PostState.pending_ihave = PreState.pending_ihave
            /\ chan = last.pre_chan

\* C9's case: an IHAVE that advertises one id that is cached, and one id that
\* another peer advertised before and that is requested from that peer, after
\* time has passed
C9_Witness ==
    /\ last.op = "handle_ihave"
    /\ Len(last.ids) = 2
    /\ has_message(PreState, last.ids[1])
    /\ last.ids[2] \in DOMAIN PreState.outstanding_iwants
    /\ PreState.outstanding_iwants[last.ids[2]].peer # last.from
    /\ PreState.outstanding_iwants[last.ids[2]].timestamp < now
    /\ last.sent = <<>>

\* C9's other case: an IHAVE whose ids are all requested
C9_WitnessRequested ==
    /\ last.op = "handle_ihave"
    /\ Len(Wanted) = 2
    /\ Len(last.sent) = 1

----------------------------------------------------------------------------
(* The membership layer: peers are added, removed and promoted while the degree
   maintenance task ticks; the node was constructed with any of the capacities *)

InitMembership ==
    /\ PubSubInit
    /\ NetIdle
    /\ ShuffleIdle
    /\ LockIdle
    /\ \E ad \in ActiveDegrees, pd \in PassiveDegrees : HyParViewMembership_new(ad, pd)

NextMembership ==
    /\ UNCHANGED <<pubsubVars, netVars, shuffleVars, lockVars>>
    /\ \/ \E peer \in Members : add_active(peer)
       \/ \E peer \in Members : remove_active(peer)
       \/ \E peer \in Members : promote_begin(peer)
       \/ \E peer \in promoting : promote_finish(peer)
       \/ degree_maintenance

SpecMembership == InitMembership /\ [][NextMembership]_vars

\* C3: in every reachable state the active and the passive view are disjoint.
C3_ViewsDisjoint == active \cap passive = {}

\* C4: at all times the active view holds at most MAX_ACTIVE_DEGREE peers and the
\* passive view at most MAX_PASSIVE_DEGREE, and the active view never holds more
\* peers than the active_degree the node was constructed with.
C4_ViewBounds ==
    /\ Cardinality(active) <= MaxActiveDegree
    /\ Cardinality(passive) <= MaxPassiveDegree
    /\ Cardinality(active) <= active_degree

\* what add_active alone keeps: without a tick of the maintenance task the active
\* view stays within the capacity, whatever the capacity is
ActiveWithinCapacityUntilTick ==
    [][mlast'.op # "degree_maintenance" /\ Cardinality(active) <= active_degree
        => Cardinality(active') <= active_degree]_vars

----------------------------------------------------------------------------
(* A network of nodes, each a PlumtreePubSub with one subscriber on the topic.
   The transport hands every frame to the node it is addressed to, and that node
   calls the handler of the frame's kind with the sender as `from`. Frames of
   different streams overtake each other. *)

Nodes == 1..NumNodes
NetTopic == "T"

\* a node whose topic was initialized with the peers `eager`, that has the peers
\* `lazy` as lazy peers, and whose subscriber `n` is registered
NodeState(n, eager, lazy) ==
    [TopicState_new EXCEPT !.eager_peers = eager, !.lazy_peers = lazy,
                           !.subscribers = <<n>>]

\* two nodes that have each other as eager peer
PairOverlay == [n \in {1, 2} |-> NodeState(n, {1, 2} \ {n}, {})]

\* the nodes in a line, each with its neighbours as eager peers
LineOverlay == [n \in Nodes |-> NodeState(n, {n - 1, n + 1} \cap Nodes, {})]

\* every node with every other node as eager peer
FullOverlay == [n \in Nodes |-> NodeState(n, Nodes \ {n}, {})]

\* A = 1 and B = 2 have each other as eager peer; C = 3 is a lazy peer of A and has
\* A as lazy peer (the sets that a duplicate between A and C leaves behind)
LazyOverlay ==
    [n \in {1, 2, 3} |->
        CASE n = 1 -> NodeState(1, {2}, {3})
          [] n = 2 -> NodeState(2, {1}, {})
          [] n = 3 -> NodeState(3, {}, {1})]

Overlays == [pair |-> PairOverlay, line |-> LineOverlay, full |-> FullOverlay,
             lazy |-> LazyOverlay]

NetFrame(src, dst, header, payload, ids) ==
    [src |-> src, frame |-> Frame(dst, header, payload, ids, TRUE)]

\* the frames of kind `kind` that `src` has handed to the transport for `dst`
SentOfKind(src, dst, kind) ==
    {f \in sentAll : f.src = src /\ f.frame.to = dst /\ f.frame.header.kind = kind}

NetSend(frames) ==
    /\ wire' = wire \cup frames
    /\ sentAll' = sentAll \cup frames

\* tx.send(data) for the subscribers of node n
NetDelivered(n, st, item) ==
    IF st.subscribers = <<>> THEN nchan
    ELSE [nchan EXCEPT ![n] = Append(@, item)]

\* publish_local at node n, first lock section
net_publish_begin(n, payload) ==
    LET msg_id == MsgId(NetTopic, current_epoch, n, PayloadHash(payload))
        header == Header(NetTopic, msg_id, "Eager", 0)
        st     == cache_message(net[n], msg_id, payload, header)
    IN  /\ Cardinality(published) < MaxPublishes
        /\ <<n, payload>> \notin published
        /\ published' = published \cup {<<n, payload>>}
        /\ net' = [net EXCEPT ![n] = st]
        /\ npub' = npub \cup {[node |-> n, msg_id |-> msg_id, payload |-> payload,
                               header |-> header, eager_peers |-> st.eager_peers]}
        /\ UNCHANGED <<wire, nchan, sentAll, overlay>>

\* publish_local at node n: the sends, none of which fails, and the second lock
\* section
net_publish_finish(call) ==
    LET n == call.node
        item == [from |-> n, payload |-> call.payload, msg_id |-> call.msg_id]
    IN  /\ npub' = npub \ {call}
        /\ NetSend({NetFrame(n, peer, call.header, call.payload, <<>>) :
                        peer \in call.eager_peers})
        /\ net' = [net EXCEPT ![n].pending_ihave = Append(@, call.msg_id)]
        /\ nchan' = NetDelivered(n, net[n], item)
        /\ UNCHANGED <<published, overlay>>

\* handle_eager at the node the frame is addressed to
net_handle_eager(f) ==
    LET n == f.frame.to
        from == f.src
        msg_id == f.frame.header.msg_id
        st0 == net[n]
    IN  IF has_message(st0, msg_id)
        THEN /\ net' = [net EXCEPT ![n] = prune_peer(st0, from)]
             /\ wire' = wire \ {f}
             /\ UNCHANGED <<nchan, sentAll>>
        ELSE LET st1 == cache_message(st0, msg_id, f.frame.payload, f.frame.header)
                 item == [from |-> from, payload |-> f.frame.payload,
                          msg_id |-> msg_id]
                 out == {NetFrame(n, peer, f.frame.header, f.frame.payload, <<>>) :
                            peer \in st1.eager_peers \ {from}}
             IN  /\ net' = [net EXCEPT ![n] =
                               [st1 EXCEPT !.pending_ihave = Append(@, msg_id)]]
                 /\ nchan' = NetDelivered(n, st1, item)
                 /\ wire' = (wire \ {f}) \cup out
                 /\ sentAll' = sentAll \cup out

\* handle_ihave at the node the frame is addressed to
net_handle_ihave(f) ==
    LET n == f.frame.to
        r == ihave_loop(net[n], f.src, f.frame.ids, <<>>)
        out == IF r.requested = <<>> THEN {}
               ELSE {NetFrame(n, f.src, Header(NetTopic, r.requested[1], "IWant", 0),
                              NoPayload, r.requested)}
    IN  /\ net' = [net EXCEPT ![n] = r.st]
        /\ wire' = (wire \ {f}) \cup out
        /\ sentAll' = sentAll \cup out
        /\ UNCHANGED nchan

\* handle_iwant at the node the frame is addressed to
net_handle_iwant(f) ==
    LET n == f.frame.to
        r == iwant_loop(net[n], f.src, f.frame.ids, <<>>)
        out == {NetFrame(n, f.src, r.to_send[i].header, r.to_send[i].payload, <<>>) :
                   i \in 1..Len(r.to_send)}
    IN  /\ net' = [net EXCEPT ![n] = r.st]
        /\ wire' = (wire \ {f}) \cup out
        /\ sentAll' = sentAll \cup out
        /\ UNCHANGED nchan

\* the transport hands a frame to its node, which calls the handler of its kind
net_receive(f) ==
    /\ f \in wire
    /\ CASE f.frame.header.kind = "Eager" -> net_handle_eager(f)
         [] f.frame.header.kind = "IHave" -> net_handle_ihave(f)
         [] f.frame.header.kind = "IWant" -> net_handle_iwant(f)
    /\ UNCHANGED <<npub, published, overlay>>

\* one tick of the IHAVE flusher of node n
net_ihave_flusher(n) ==
    LET st == net[n]
        batch == ihave_batch(st)
    IN  /\ st.pending_ihave # <<>>
        /\ net' = [net EXCEPT ![n].pending_ihave = SubSeq(@, Len(batch) + 1, Len(@))]
        /\ NetSend({NetFrame(n, peer, Header(NetTopic, batch[1], "IHave", 0),
                             NoPayload, batch) : peer \in st.lazy_peers})
        /\ UNCHANGED <<nchan, npub, published, overlay>>

InitNet ==
    /\ PubSubInit
    /\ MemberIdle
    /\ ShuffleIdle
    /\ LockIdle
    /\ \E o \in DOMAIN Overlays : overlay = o /\ net = Overlays[o]
    /\ nchan = [n \in DOMAIN net |-> <<>>]
    /\ wire = {}
    /\ npub = {}
    /\ published = {}
    /\ sentAll = {}

NextNet ==
    /\ UNCHANGED <<pubsubVars, memberVars, shuffleVars, lockVars>>
    /\ \/ \E n \in DOMAIN net : net_publish_begin(n, "x")
       \/ \E call \in npub : net_publish_finish(call)
       \/ \E f \in wire : net_receive(f)
       \/ \E n \in DOMAIN net : net_ihave_flusher(n)

SpecNet == InitNet /\ [][NextNet]_vars

\* the calls that were begun return, the frames on the wire are handled, and the
\* flushers tick
NetFairness ==
    /\ WF_netVars(\E call \in npub : net_publish_finish(call))
    /\ WF_netVars(\E f \in wire : net_receive(f))
    /\ WF_netVars(\E n \in DOMAIN net : net_ihave_flusher(n))

SpecNetFair == SpecNet /\ NetFairness

\* the id of the message node n publishes with payload "x"
XId(n) == MsgId(NetTopic, 0, n, PayloadHash("x"))

\* how often the subscriber of node n was sent the message msg_id
TimesDelivered(n, msg_id) ==
    Cardinality({i \in 1..Len(nchan[n]) : nchan[n][i].msg_id = msg_id})

\* C11: lazy recovery. With B an eager and C a lazy peer of A, after A has published
\* x, C is sent an IHAVE for the id by A's flusher, requests it from A with an IWANT
\* and is answered with an EAGER; C delivers x to its subscriber exactly once, has A
\* as eager peer afterwards, and a further IHAVE for the id makes C request nothing.
C11_LazyRecovery ==
    overlay = "lazy" =>
        /\ TimesDelivered(3, XId(1)) <= 1
        /\ has_message(net[3], XId(1)) =>
              /\ TimesDelivered(3, XId(1)) = 1
              /\ SentOfKind(1, 3, "IHave") # {}
              /\ SentOfKind(3, 1, "IWant") # {}
              /\ SentOfKind(1, 3, "Eager") # {}
              /\ ihave_loop(net[3], 1, <<XId(1)>>, <<>>).requested = <<>>
              /\ 1 \in net[3].eager_peers

\* C11 as the code has it: it is A that has C as eager peer after the round trip
\* (graft_peer in handle_iwant); C's peer sets are as they were
LazyRecoveryAsCoded ==
    overlay = "lazy" =>
        /\ TimesDelivered(3, XId(1)) <= 1
        /\ has_message(net[3], XId(1)) =>
              /\ TimesDelivered(3, XId(1)) = 1
              /\ SentOfKind(1, 3, "IHave") # {}
              /\ SentOfKind(3, 1, "IWant") # {}
              /\ SentOfKind(1, 3, "Eager") # {}
              /\ ihave_loop(net[3], 1, <<XId(1)>>, <<>>).requested = <<>>
              /\ 3 \in net[1].eager_peers
              /\ net[3].eager_peers = {}
              /\ net[3].lazy_peers = {1}

\* the recovery does happen: once A has published, C gets the message
LazyRecoveryHappens ==
    (overlay = "lazy" /\ <<1, "x">> \in published)
        ~> (IF overlay = "lazy" THEN has_message(net[3], XId(1)) ELSE FALSE)

\* the overlays in which every node has its neighbours as eager peers and the
\* neighbour graph is connected
EagerOverlay == overlay \in {"pair", "line", "full"}

DeliveredEverywhere(msg_id) == \A m \in DOMAIN net : TimesDelivered(m, msg_id) = 1

----------------------------------------------------------------------------
(* The failure detector: its callers mark peers, its two tasks tick, time passes *)

SwimPeers == 1..NumSwimPeers

\* a call of SwimDetector::mark_alive
call_mark_alive(peer) ==
    /\ swim' = mark_alive(swim, peer)
    /\ mlast' = MLast("mark_alive", peer)
    /\ UNCHANGED <<now, active, passive, active_degree, passive_degree, promoting>>

\* a call of SwimDetector::mark_suspect
call_mark_suspect(peer) ==
    /\ swim' = mark_suspect(swim, peer)
    /\ mlast' = MLast("mark_suspect", peer)
    /\ UNCHANGED <<now, active, passive, active_degree, passive_degree, promoting>>

\* a call of SwimDetector::mark_dead
call_mark_dead(peer) ==
    /\ swim' = mark_dead(swim, peer)
    /\ mlast' = MLast("mark_dead", peer)
    /\ UNCHANGED <<now, active, passive, active_degree, passive_degree, promoting>>

\* one tick of the task spawn_suspect_timeout_task starts
suspect_timeout_task ==
    /\ swim' = [peer \in DOMAIN swim |->
                  IF peer \in to_mark_dead(swim)
                  THEN [state |-> "Dead", last_update |-> now] ELSE swim[peer]]
    /\ mlast' = MLast("suspect_timeout_task", NoPeer)
    /\ UNCHANGED <<now, active, passive, active_degree, passive_degree, promoting>>

\* one tick of the task spawn_probe_task starts: a PING goes to one Alive peer, any
\* (alive_peers.first()); nothing is done about an answer
probe_task ==
    /\ \E peer \in (IF get_peers_in_state(swim, "Alive") = {} THEN {NoPeer}
                    ELSE get_peers_in_state(swim, "Alive")) :
          mlast' = MLast("probe_task", peer)
    /\ UNCHANGED <<now, swim, active, passive, active_degree, passive_degree, promoting>>

\* a second passes
advance_clock ==
    /\ now < MaxSwimTime
    /\ now' = now + 1
    /\ mlast' = MLast("advance_clock", NoPeer)
    /\ UNCHANGED <<swim, active, passive, active_degree, passive_degree, promoting>>

NextSwim ==
    /\ UNCHANGED <<topics, inflight, spawned, nextSub, chan, rxDropped, last, netVars,
                   shuffleVars, lockVars>>
    /\ \/ \E peer \in SwimPeers : call_mark_alive(peer)
       \/ \E peer \in SwimPeers : call_mark_suspect(peer)
       \/ \E peer \in SwimPeers : call_mark_dead(peer)
       \/ suspect_timeout_task
       \/ probe_task
       \/ advance_clock
       \/ \E peer \in SwimPeers : add_active(peer) /\ UNCHANGED now
       \/ \E peer \in SwimPeers : remove_active(peer) /\ UNCHANGED now
       \/ degree_maintenance /\ UNCHANGED now

SpecSwim == Init /\ [][NextSwim]_vars

\* the tasks of the detector tick and time passes
SwimFairness ==
    /\ WF_memberVars(suspect_timeout_task)
    /\ WF_memberVars(probe_task)
    /\ WF_now(advance_clock)

SpecSwimFair == SpecSwim /\ SwimFairness

PeerStates == {"Alive", "Suspect", "Dead"}

\* the step taken is the operation op on the peer
SwimCall(op, peer) == mlast'.op = op /\ mlast'.peer = peer

\* C13: after a tick of the degree maintenance task no peer the detector holds as
\* Dead is in the active view, the passive view, or the eager or lazy set of a
\* topic
C13_DeadPeersLeaveViews ==
    mlast.op = "degree_maintenance" =>
        \A p \in get_peers_in_state(swim, "Dead") :
            /\ p \notin active \cup passive
            /\ \A t \in DOMAIN topics :
                  p \notin topics[t].eager_peers \cup topics[t].lazy_peers

\* the tick as coded: it never looks at the detector, and with the view within
\* DEFAULT_ACTIVE_DEGREE..MAX_ACTIVE_DEGREE and the passive view within its bound
\* it leaves both views as they were, Dead peers included
DegreeTickKeepsDeadPeers ==
    (/\ mlast.op = "degree_maintenance"
     /\ Cardinality(mlast.pre_active) \in DefaultActiveDegree..MaxActiveDegree
     /\ Cardinality(mlast.pre_passive) <= MaxPassiveDegree)
    => active = mlast.pre_active /\ passive = mlast.pre_passive

\* C14: the transition relation of the failure detector. mark_alive makes a peer
\* Alive from any state; mark_suspect makes an Alive peer Suspect and changes no
\* other; mark_dead makes a peer Dead from any state; the sweeper makes Dead the
\* timed-out suspects and changes no other; a call about one peer changes no other
\* peer; a Dead peer leaves Dead only through mark_alive for it; and
\* get_peers_in_state(s) is the set of the peers get_state puts in s
C14_SwimTransitions ==
    [][\A p \in SwimPeers :
          LET before == get_state(swim, p)
              after == get_state(swim', p)
          IN  /\ SwimCall("mark_alive", p) => after = "Alive"
              /\ SwimCall("mark_suspect", p) =>
                    after = IF before = "Alive" THEN "Suspect" ELSE before
              /\ SwimCall("mark_dead", p) => after = "Dead"
              /\ mlast'.op = "suspect_timeout_task" =>
                    after = IF /\ before = "Suspect"
                               /\ now - swim[p].last_update > SWIM_SUSPECT_TIMEOUT_SECS
                            THEN "Dead" ELSE before
              /\ (/\ mlast'.op \in {"mark_alive", "mark_suspect", "mark_dead"}
                  /\ mlast'.peer # p) => after = before
              /\ (before = "Dead" /\ after # "Dead") =>
                    \/ SwimCall("mark_alive", p)
                    \/ SwimCall("add_active", p)
              /\ \A s \in PeerStates :
                    get_peers_in_state(swim', s) =
                        {q \in SwimPeers : get_state(swim', q) = s}
      ]_vars

\* mark_suspect was called for a Dead peer, which stays Dead, while another peer
\* is Suspect
C14_Witness ==
    /\ mlast.op = "mark_suspect"
    /\ get_state(swim, mlast.peer) = "Dead"
    /\ get_peers_in_state(swim, "Suspect") # {}

\* C15: a tick of the sweeper makes Dead every peer that has been Suspect for
\* longer than the suspect timeout, and leaves an Alive peer and a Suspect peer
\* whose timeout has not elapsed as they are
C15_SuspectTimeout ==
    [][mlast'.op = "suspect_timeout_task" =>
          \A p \in DOMAIN swim :
              /\ (/\ swim[p].state = "Suspect"
                  /\ now - swim[p].last_update > SWIM_SUSPECT_TIMEOUT_SECS)
                 => swim'[p].state = "Dead"
              /\ (/\ swim[p].state = "Suspect"
                  /\ now - swim[p].last_update <= SWIM_SUSPECT_TIMEOUT_SECS)
                 => swim'[p] = swim[p]
              /\ swim[p].state = "Alive" => swim'[p] = swim[p]
      ]_vars

\* the sweeper has just made a timed-out suspect Dead and left a later suspect
\* Suspect
C15_Witness ==
    /\ mlast.op = "suspect_timeout_task"
    /\ \E p, q \in DOMAIN swim :
          /\ swim[p].state = "Dead" /\ swim[p].last_update = now
          /\ swim[q].state = "Suspect"
          /\ now - swim[q].last_update <= SWIM_SUSPECT_TIMEOUT_SECS
          /\ now > SWIM_SUSPECT_TIMEOUT_SECS

\* C16: a peer that is Alive in the detector (and, as no ACK is ever handled,
\* never answers) is eventually marked Suspect
C16_ProbingDetectsFailure ==
    \A p \in SwimPeers :
        (get_state(swim, p) = "Alive") ~> (get_state(swim, p) = "Suspect")

\* probing as coded: a tick of the probe task changes no state of the detector
ProbeChangesNoState ==
    [][mlast'.op = "probe_task" =>
          /\ swim' = swim
          /\ mlast'.peer \in get_peers_in_state(swim, "Alive") \cup {NoPeer}]_vars

----------------------------------------------------------------------------
(* The operations on the views, call by call (under SpecMembership) *)

\* C17: add_active(p) for p not in the active view. Below capacity p is inserted
\* and no peer is evicted; otherwise (the view is full) exactly one other peer q
\* leaves the active view, into the passive view when that has room, and the
\* active view has exactly as many peers as its capacity; either way p is active
\* and Alive, and an evicted peer that found room is passive and no longer active
C17_AddActive ==
    (mlast.op = "add_active" /\ mlast.peer \notin mlast.pre_active) =>
        /\ Cardinality(mlast.pre_active) < active_degree =>
              /\ active = mlast.pre_active \cup {mlast.peer}
              /\ passive = mlast.pre_passive
        /\ Cardinality(mlast.pre_active) >= active_degree =>
              /\ \E q \in mlast.pre_active :
                    /\ active = (mlast.pre_active \ {q}) \cup {mlast.peer}
                    /\ passive = IF Cardinality(mlast.pre_passive) < passive_degree
                                 THEN mlast.pre_passive \cup {q}
                                 ELSE mlast.pre_passive
              /\ Cardinality(active) = active_degree
        /\ mlast.peer \in active
        /\ get_state(swim, mlast.peer) = "Alive"

\* add_active as coded: the same, except that a view found with more peers than
\* its capacity keeps that many peers
AddActiveAsCoded ==
    (mlast.op = "add_active" /\ mlast.peer \notin mlast.pre_active) =>
        /\ Cardinality(mlast.pre_active) < active_degree =>
              /\ active = mlast.pre_active \cup {mlast.peer}
              /\ passive = mlast.pre_passive
        /\ (Cardinality(mlast.pre_active) >= active_degree /\ mlast.pre_active # {}) =>
              /\ \E q \in mlast.pre_active :
                    /\ active = (mlast.pre_active \ {q}) \cup {mlast.peer}
                    /\ passive = IF Cardinality(mlast.pre_passive) < passive_degree
                                 THEN mlast.pre_passive \cup {q}
                                 ELSE mlast.pre_passive
              /\ Cardinality(active) = Cardinality(mlast.pre_active)
        /\ mlast.peer \in active
        /\ get_state(swim, mlast.peer) = "Alive"

\* C18: after remove_active(p), p is not in the active view and the detector
\* reports p as Dead; the passive view and the other active peers are unchanged,
\* and neither view changes when p was not active
C18_RemoveActive ==
    mlast.op = "remove_active" =>
        /\ mlast.peer \notin active
        /\ get_state(swim, mlast.peer) = "Dead"
        /\ passive = mlast.pre_passive
        /\ active = mlast.pre_active \ {mlast.peer}

\* remove_active as coded: the peer is marked Dead when it was in the active view
RemoveActiveAsCoded ==
    mlast.op = "remove_active" =>
        /\ mlast.peer \notin active
        /\ mlast.peer \in mlast.pre_active => get_state(swim, mlast.peer) = "Dead"
        /\ passive = mlast.pre_passive
        /\ active = mlast.pre_active \ {mlast.peer}

\* C19: after promote(p) for a passive peer p, p is in the active view, not in
\* the passive view, and Alive; promote(p) for a peer that is not passive changes
\* no view
C19_Promote ==
    /\ mlast.op = "promote" =>
          /\ mlast.peer \in active
          /\ mlast.peer \notin passive
          /\ get_state(swim, mlast.peer) = "Alive"
    /\ (mlast.op = "promote_begin" /\ mlast.peer \notin mlast.pre_passive) =>
          /\ active = mlast.pre_active
          /\ passive = mlast.pre_passive
          /\ mlast.peer \notin promoting

\* promote as coded: the peer ends in the active view and Alive; it is out of the
\* passive view when add_active finds it neither active nor passive
PromoteAsCoded ==
    /\ mlast.op = "promote" =>
          /\ mlast.peer \in active
          /\ get_state(swim, mlast.peer) = "Alive"
          /\ mlast.peer \notin mlast.pre_active \cup mlast.pre_passive =>
                mlast.peer \notin passive
    /\ (mlast.op = "promote_begin" /\ mlast.peer \notin mlast.pre_passive) =>
          /\ active = mlast.pre_active
          /\ passive = mlast.pre_passive
          /\ mlast.peer \notin promoting

----------------------------------------------------------------------------
(* Shuffling: two membership nodes, A = 1 and B = 2, and the transport between
   them *)

ShuffleNodes == {1, 2}

\* the further peers node n knows: P1.. for A, Q1.. for B
OwnPeers(n) == {10 * n + i : i \in 1..NumShufflePassive}

\* HyParViewMembership::new(ShuffleActiveDegree, ShufflePassiveDegree, transport)
NodeViews_new == [active |-> {}, passive |-> {}, swim |-> <<>>]

\* Membership::add_active at node n
node_add_active(n, peer) ==
    LET v == hview[n]
    IN  /\ \E to_demote \in (IF Cardinality(v.active) >= ShuffleActiveDegree
                                /\ v.active # {}
                             THEN v.active ELSE {NoPeer}) :
              hview' = [hview EXCEPT ![n] =
                  [active |-> (v.active \ {to_demote}) \cup {peer},
                   passive |-> IF /\ to_demote # NoPeer
                                  /\ Cardinality(v.passive) < ShufflePassiveDegree
                               THEN v.passive \cup {to_demote} ELSE v.passive,
                   swim |-> mark_alive(v.swim, peer)]]
        /\ UNCHANGED mwire

\* HyParViewMembership::shuffle at node n: with an empty active view nothing is
\* done; otherwise one active peer, any, is sent (passive_degree / 4).max(1)
\* peers of the passive view, any
exchange_size == IF ShufflePassiveDegree \div 4 >= 1 THEN ShufflePassiveDegree \div 4 ELSE 1

shuffle(n) ==
    /\ hview[n].active # {}
    /\ Cardinality(mwire) < MaxShuffles
    /\ \E target \in hview[n].active :
          \E to_exchange \in TakeSets(hview[n].passive, exchange_size) :
              mwire' = mwire \cup {[src |-> n, dst |-> target, kind |-> "SHUFFLE",
                                    peers |-> to_exchange, delivered |-> FALSE]}
    /\ UNCHANGED hview

\* GossipTransport: the frame reaches the node it is addressed to. No code of the
\* membership layer reads a frame of the Membership stream, so no view changes
membership_deliver(f) ==
    /\ ~f.delivered
    /\ mwire' = (mwire \ {f}) \cup {[f EXCEPT !.delivered = TRUE]}
    /\ UNCHANGED hview

InitShuffle ==
    /\ PubSubInit
    /\ MemberIdle
    /\ NetIdle
    /\ LockIdle
    /\ hview = [n \in ShuffleNodes |-> NodeViews_new]
    /\ mwire = {}

NextShuffle ==
    /\ UNCHANGED <<pubsubVars, memberVars, netVars, lockVars>>
    /\ \/ \E n \in ShuffleNodes :
             \E peer \in OwnPeers(n) \cup (ShuffleNodes \ {n}) : node_add_active(n, peer)
       \/ \E n \in ShuffleNodes : shuffle(n)
       \/ \E f \in mwire : membership_deliver(f)

SpecShuffle == InitShuffle /\ [][NextShuffle]_vars

\* C20: a SHUFFLE frame that has reached the node B it was sent to has been merged
\* and answered: B's passive view holds a peer of the sample (when the sample is
\* not empty and the view had room), B's passive view is within its capacity, and
\* a reply of B to the sender is with the transport
C20_ShuffleRoundTrip ==
    \A f \in mwire :
        (f.delivered /\ f.dst \in DOMAIN hview) =>
            /\ (f.peers # {} /\ Cardinality(hview[f.dst].passive) < ShufflePassiveDegree)
                  => hview[f.dst].passive \cap f.peers # {}
            /\ Cardinality(hview[f.dst].passive) <= ShufflePassiveDegree
            /\ \E g \in mwire : g.src = f.dst /\ g.dst = f.src /\ g # f

\* shuffle as coded: a frame is sent only by a node with the target in its active
\* view, carries exchange_size peers of the sender's passive view (all of them if
\* fewer), and neither sending nor delivering a frame changes a view
ShuffleAsCoded ==
    [][mwire' # mwire =>
          /\ hview' = hview
          /\ \A f \in {g \in mwire' \ mwire : ~g.delivered} :
                /\ f.dst \in hview[f.src].active
                /\ f.peers \subseteq hview[f.src].passive
                /\ Cardinality(f.peers) =
                      Min(exchange_size, Cardinality(hview[f.src].passive))
      ]_vars

----------------------------------------------------------------------------
(* Subscribing and unsubscribing while messages are on their way *)

\* C21: a channel that subscribe() has returned receives every message that is
\* first received by EAGER afterwards: a first-time EAGER is appended to every
\* channel that existed when it was handled
C21_SubscriberReceives ==
    IsFirstTime =>
        \A s \in DOMAIN last.pre_chan :
            chan[s] = Append(last.pre_chan[s],
                             [from |-> last.from, payload |-> last.payload,
                              msg_id |-> last.msg_id])

\* subscribe as coded: a channel receives a first-time EAGER when the task spawned
\* by subscribe() has run before, and nothing otherwise
SubscriberReceivesAsCoded ==
    IsFirstTime =>
        \A s \in DOMAIN last.pre_chan :
            chan[s] = IF s \in Range(PreState.subscribers)
                      THEN Append(last.pre_chan[s],
                                  [from |-> last.from, payload |-> last.payload,
                                   msg_id |-> last.msg_id])
                      ELSE last.pre_chan[s]

\* the topic was removed while the publish call that has just returned was between
\* its lock sections: the message it cached is not there any more
RemovedInFlight == last.op = "publish" /\ ~has_message(PreState, last.msg_id)

\* C22: unsubscribe removes the state of the topic, and a publish that was in
\* flight when it ran sends no frame, delivers nothing and leaves no state of the
\* topic behind
C22_UnsubscribeAtomic ==
    /\ last.op = "unsubscribe" => last.topic \notin DOMAIN topics
    /\ RemovedInFlight =>
          /\ last.sent = <<>>
          /\ chan = last.pre_chan
          /\ last.topic \notin DOMAIN topics

\* unsubscribe as coded: the topic is removed in one step; a publish in flight
\* still sends to the eager peers it collected, and its second lock section does
\* nothing when the topic is absent
UnsubscribeAsCoded ==
    /\ last.op = "unsubscribe" => last.topic \notin DOMAIN topics
    /\ (last.op = "publish" /\ last.pre = <<>>) =>
          /\ chan = last.pre_chan
          /\ last.topic \notin DOMAIN topics
          /\ {f.to : f \in Range(last.sent)} \subseteq last.targets

----------------------------------------------------------------------------
(* The node whose subscribers come and go: receivers are dropped while messages
   are published and received *)

NextDrop ==
    /\ UNCHANGED <<memberVars, netVars, shuffleVars, lockVars>>
    /\ \/ \E t \in Topics : subscribe(t)
       \/ \E task \in spawned : subscribe_task(task)
       \/ \E s \in DOMAIN chan : drop_receiver(s)
       \/ \E t \in Topics : \E id \in SpecIds(t) :
             /\ has_message(Entry(t), id) \/ (ChanRoom(Entry(t)) /\ PendingRoom(Entry(t)))
             /\ handle_eager(1, t, EagerMsg(t, id, 0))
       \/ \E t \in Topics :
             /\ ChanRoom(Entry(t)) /\ PendingRoom(Entry(t))
             /\ publish_begin(t, "x")
       \/ \E call \in inflight : \E run \in SendRuns(call.eager_peers) :
             publish_finish(call, run)
       \/ \E t \in Topics : initialize_topic_peers(t, Neighbours)
       \/ ihave_flusher({})

SpecDrop == Init /\ [][NextDrop]_vars

\* the last step delivered a message: a first-time EAGER, or a publish whose
\* sends succeeded and that found the topic in its second lock section
IsDelivery == IsFirstTime \/ (last.op = "publish" /\ last.ok /\ last.pre # <<>>)

\* the subscribers of the topic whose receiver was still there
LiveSubscribers == {s \in Range(PreState.subscribers) : s \notin rxDropped}

\* C23: a delivery on a topic removes the subscribers whose receiver has been
\* dropped and appends the message once to the channel of every other subscriber
\* and to no other channel; the peer sets, the cache and pending_ihave end as the
\* delivery leaves them whatever the subscribers are
C23_DroppedSubscriber ==
    IsDelivery =>
        LET item == [from |-> IF IsEagerStep THEN last.from ELSE Self,
                     payload |-> last.payload, msg_id |-> last.msg_id]
        IN  /\ PostState.subscribers =
                  SelectSeq(PreState.subscribers, LAMBDA s : s \notin rxDropped)
            /\ \A s \in DOMAIN chan :
                  chan[s] = IF s \in LiveSubscribers
                            THEN Append(last.pre_chan[s], item) ELSE last.pre_chan[s]
            /\ PostState.eager_peers = PreState.eager_peers
            /\ PostState.lazy_peers = PreState.lazy_peers
            /\ PostState.outstanding_iwants = PreState.outstanding_iwants
            /\ PostState.pending_ihave = Append(PreState.pending_ihave, last.msg_id)
            /\ PostState.message_cache =
                  IF IsEagerStep
                  THEN cache_message([PreState EXCEPT !.subscribers = <<>>], last.msg_id,
                                     last.payload,
                                     Header(last.topic, last.msg_id, "Eager", 0)).message_cache
                  ELSE PreState.message_cache

\* a delivery found two subscribers, one of them with its receiver dropped: that
\* one is removed, the other has the message
C23_Witness ==
    /\ IsDelivery
    /\ Len(PreState.subscribers) = 2
    /\ Cardinality(LiveSubscribers) = 1
    /\ Len(PostState.subscribers) = 1
    /\ \A s \in LiveSubscribers : Len(chan[s]) = Len(last.pre_chan[s]) + 1

----------------------------------------------------------------------------
(* The cache of a topic: messages are received and published, asked for with
   IWANT, and cleaned as time passes *)

\* the messages peers 1 and 2 published in epoch 0
PoolIds(t) == {RemoteId(t, origin, payload) : origin \in 1..2, payload \in Payloads}

\* the ids a peer asks for: those, and what this node published in epoch 0
AskedIds(t) == PoolIds(t) \cup {OwnId(t, 0, "x")}

NextCache ==
    /\ UNCHANGED <<memberVars, netVars, shuffleVars, lockVars>>
    /\ \/ \E t \in Topics : \E id \in PoolIds(t) :
             /\ has_message(Entry(t), id) \/ PendingRoom(Entry(t))
             /\ handle_eager(1, t, EagerMsg(t, id, 0))
       \/ \E t \in Topics :
             /\ PendingRoom(Entry(t))
             /\ publish_begin(t, "x")
       \/ \E call \in inflight : publish_finish(call, [done |-> {}, failed |-> NoPeer])
       \/ \E t \in Topics : \E id \in AskedIds(t) : handle_iwant(1, t, <<id>>)
       \/ ihave_flusher({})
       \/ advance_time
       \/ cache_cleaner

SpecCache == Init /\ [][NextCache]_vars

CacheSeq(st) == [i \in 1..Len(st.message_cache) |-> st.message_cache[i].msg_id]

Without(ids, id) == SelectSeq(ids, LAMBDA x : x # id)

\* C24: a tick of the cache cleaner removes every entry inserted more than
\* CACHE_TTL_SECS earlier and keeps every other entry; and an IWANT for an id that
\* is not in the cache (any more) makes no EAGER be sent
C24_CacheExpiry ==
    [][/\ last'.op = "cache_cleaner" =>
             \A t \in DOMAIN topics :
                 \A i \in 1..Len(topics[t].message_cache) :
                     LET e == topics[t].message_cache[i]
                     IN  /\ now - e.timestamp > CACHE_TTL_SECS
                            => ~has_message(topics'[t], e.msg_id)
                         /\ now - e.timestamp <= CACHE_TTL_SECS
                            => /\ has_message(topics'[t], e.msg_id)
                               /\ CacheEntry(topics'[t], e.msg_id) = e
       /\ last'.op = "handle_iwant" =>
             \A i \in 1..Len(last'.ids) :
                 ~has_message(Entry(last'.topic), last'.ids[i]) =>
                     \A j \in 1..Len(last'.sent) :
                         last'.sent[j].header.msg_id # last'.ids[i]
      ]_vars

\* the message this node published at time 0 has been advertised but not flushed,
\* the cleaner has removed it from the cache after more than CACHE_TTL_SECS, and
\* the IWANT for it was answered with nothing
C24_Witness ==
    /\ last.op = "handle_iwant"
    /\ last.ids = <<OwnId(last.topic, 0, "x")>>
    /\ OwnId(last.topic, 0, "x") \in Range(PostState.pending_ihave)
    /\ ~has_message(PreState, OwnId(last.topic, 0, "x"))
    /\ last.sent = <<>>
    /\ now > CACHE_TTL_SECS

\* C25: the cache of a topic never holds more entries than its capacity; a new id
\* put into a full cache evicts exactly the least recently used entry, and a use
\* is an insertion (by handle_eager or publish) or a hit of handle_iwant: each
\* makes its entry the most recently used one, and no other step changes the order
C25_CacheBound ==
    /\ [](\A t \in DOMAIN topics :
            /\ Len(topics[t].message_cache) <= CacheCap
            /\ Cardinality(CacheIds(topics[t])) = Len(topics[t].message_cache))
    /\ [][\A t \in DOMAIN topics' :
            LET old == CacheSeq(Entry(t))
                new == CacheSeq(topics'[t])
                id  == IF last'.op = "handle_iwant" THEN last'.ids[1] ELSE last'.msg_id
                inserted == \/ last'.op = "publish_begin"
                            \/ last'.op = "handle_eager" /\ ~has_message(Entry(t), id)
                               /\ last'.payload # NoPayload
            IN  /\ (inserted /\ ~has_message(Entry(t), id)) =>
                      new = <<id>> \o (IF Len(old) = CacheCap
                                       THEN SubSeq(old, 1, CacheCap - 1) ELSE old)
                /\ (inserted /\ has_message(Entry(t), id)) =>
                      new = <<id>> \o Without(old, id)
                /\ (last'.op = "handle_iwant" /\ Len(last'.ids) = 1) =>
                      new = IF has_message(Entry(t), id)
                            THEN <<id>> \o Without(old, id) ELSE old
                /\ (~inserted /\ last'.op \notin {"handle_iwant", "cache_cleaner"}) =>
                      new = old
         ]_vars

\* a new id was put into a full cache and the entry evicted had been inserted
\* later than an entry that stays: that one had been looked up in between
C25_Witness ==
    /\ IsFirstTime
    /\ Len(PreState.message_cache) = CacheCap
    /\ Len(PostState.message_cache) = CacheCap
    /\ ~has_message(PostState, PreState.message_cache[CacheCap].msg_id)
    /\ \E i \in 1..(CacheCap - 1) :
          PreState.message_cache[i].timestamp < PreState.message_cache[CacheCap].timestamp

----------------------------------------------------------------------------
(* The batch and the requests of a topic (under SpecIHave) *)

\* C26: pending_ihave and outstanding_iwants of every topic stay within their
\* caps, and a handle_ihave that finds outstanding_iwants at its cap tracks no new
\* request and sends no IWANT
C26_QueueCaps ==
    /\ \A t \in DOMAIN topics :
          /\ Len(topics[t].pending_ihave) <= PendingIHaveCap
          /\ Cardinality(DOMAIN topics[t].outstanding_iwants) <= OutstandingIWantsCap
    /\ (/\ last.op = "handle_ihave"
        /\ Cardinality(DOMAIN PreState.outstanding_iwants) >= OutstandingIWantsCap) =>
          /\ PostState.outstanding_iwants = PreState.outstanding_iwants
          /\ last.sent = <<>>

\* the requests as coded: an entry of outstanding_iwants is never removed, neither
\* by the EAGER that answers the request nor by any tick
OutstandingNeverRemoved ==
    [][\A t \in DOMAIN topics :
          /\ t \in DOMAIN topics'
          /\ DOMAIN topics[t].outstanding_iwants \subseteq DOMAIN topics'[t].outstanding_iwants
      ]_vars

----------------------------------------------------------------------------
(* Hop counts: EAGER frames arrive with every hop count up to the ttl *)

\* the hop counts of the frames handed to the node
HopsHanded == {0, DEFAULT_TTL}

NextHop ==
    /\ UNCHANGED <<memberVars, netVars, shuffleVars, lockVars>>
    /\ \/ \E from \in Neighbours, t \in Topics, hop \in HopsHanded :
             \E id \in SpecIds(t) :
                /\ has_message(Entry(t), id) \/ (ChanRoom(Entry(t)) /\ PendingRoom(Entry(t)))
                /\ handle_eager(from, t, EagerMsg(t, id, hop))
       \/ \E t \in Topics :
             /\ DeliveryRoom(Entry(t)) /\ PendingRoom(Entry(t))
             /\ publish_begin(t, "x")
       \/ \E call \in inflight :
             publish_finish(call, [done |-> call.eager_peers, failed |-> NoPeer])
       \/ \E t \in Topics : initialize_topic_peers(t, Neighbours)
       \/ \E t \in Topics : nextSub < MaxSubs /\ subscribe(t)
       \/ \E task \in spawned : subscribe_task(task)
       \/ ihave_flusher({})

SpecHop == Init /\ [][NextHop]_vars

\* C27: an EAGER that publish sends has hop 0 and the default ttl; a forward of a
\* first-time EAGER carries a hop one larger than the hop received; and a
\* first-time EAGER received with hop >= ttl is cached and delivered but forwarded
\* to no peer
C27_HopAndTtl ==
    /\ last.op = "publish" =>
          \A f \in Range(last.sent) :
              f.header.hop = 0 /\ f.header.ttl = DEFAULT_TTL
    /\ IsFirstTime =>
          /\ \A f \in Range(last.sent) : f.header.hop = last.hop + 1
          /\ last.hop >= DEFAULT_TTL =>
                /\ last.sent = <<>>
                /\ has_message(PostState, last.msg_id)
                /\ chan = AfterDelivery(Range(PreState.subscribers),
                                        [from |-> last.from, payload |-> last.payload,
                                         msg_id |-> last.msg_id])

\* hops as coded: publish sends hop 0 and ttl 10; handle_eager forwards the frame
\* as it received it, with the hop it received, whatever the hop and the ttl are
HopAsCoded ==
    /\ last.op = "publish" =>
          \A f \in Range(last.sent) :
              f.header.hop = 0 /\ f.header.ttl = DEFAULT_TTL
    /\ IsFirstTime =>
          /\ \A f \in Range(last.sent) : f.header.hop = last.hop
          /\ last.ok => {f.to : f \in Range(last.sent)} = PreState.eager_peers \ {last.from}

----------------------------------------------------------------------------
(* Message ids on the paths of a network (under SpecNet) *)

\* the id, topic and payload are those of a message that was published: the id is
\* the function of (topic, epoch, origin, payload hash) of that publish
AsPublished(msg_id, topic, payload) ==
    \E pub \in published :
        /\ msg_id = MsgId(NetTopic, 0, pub[1], PayloadHash(pub[2]))
        /\ topic = NetTopic
        /\ payload = pub[2]

\* C28: every EAGER frame handed to the transport (by publish, by a forward of
\* handle_eager or by an answer of handle_iwant), every cache entry of every node
\* and every delivery carries the id, the topic and the payload of the publish, and
\* an entry is cached under the id its header carries
C28_MessageIdDeterminism ==
    /\ \A f \in sentAll :
          f.frame.header.kind = "Eager" =>
              AsPublished(f.frame.header.msg_id, f.frame.header.topic, f.frame.payload)
    /\ \A n \in DOMAIN net : \A i \in 1..Len(net[n].message_cache) :
          LET e == net[n].message_cache[i]
          IN  /\ AsPublished(e.msg_id, e.header.topic, e.payload)
              /\ e.header.msg_id = e.msg_id
    /\ \A n \in DOMAIN nchan : \A i \in 1..Len(nchan[n]) :
          AsPublished(nchan[n][i].msg_id, NetTopic, nchan[n][i].payload)

\* the message node 1 published has reached node 2 by a forward and node 3 by the
\* answer to its IWANT, and both cache it under the same id
C28_Witness ==
    /\ overlay = "lazy"
    /\ has_message(net[2], XId(1))
    /\ has_message(net[3], XId(1))
    /\ SentOfKind(1, 3, "Eager") # {}
    /\ SentOfKind(3, 1, "IWant") # {}
    /\ CacheEntry(net[2], XId(1)).payload = CacheEntry(net[3], XId(1)).payload

----------------------------------------------------------------------------
(* The order of the deliveries: peers 1 and 2 send the messages peer 1 and peer 2
   published, while the node publishes, subscribes and flushes *)

NextOrder ==
    /\ UNCHANGED <<memberVars, netVars, shuffleVars, lockVars>>
    /\ \/ \E from \in 1..2, t \in Topics, payload \in Payloads :
             LET id == RemoteId(t, from, payload)
             IN  /\ \/ has_message(Entry(t), id)
                    \/ (DeliveryRoom(Entry(t)) /\ PendingRoom(Entry(t)))
                 /\ handle_eager(from, t, EagerMsg(t, id, 0))
       \/ \E t \in Topics :
             /\ DeliveryRoom(Entry(t)) /\ PendingRoom(Entry(t))
             /\ publish_begin(t, "x")
       \/ \E call \in inflight :
             publish_finish(call, [done |-> call.eager_peers, failed |-> NoPeer])
       \/ \E t \in Topics : subscribe(t)
       \/ \E task \in spawned : subscribe_task(task)
       \/ ihave_flusher({})

SpecOrder == Init /\ [][NextOrder]_vars

\* the step that is taken is a first-time EAGER
FirstTimeNext ==
    /\ last'.op = "handle_eager"
    /\ last'.payload # NoPayload
    /\ ~has_message(Entry(last'.topic), last'.msg_id)

\* C29: no step removes or reorders what a channel holds, and a first-time EAGER
\* puts its payload behind everything the channel of a subscriber held; so of two
\* first-time EAGERs of one source every subscriber receives the payloads in the
\* order in which the frames were handled, whatever steps come between them
C29_PerSourceOrder ==
    [][/\ \A s \in DOMAIN chan :
             /\ Len(chan'[s]) >= Len(chan[s])
             /\ SubSeq(chan'[s], 1, Len(chan[s])) = chan[s]
       /\ FirstTimeNext =>
             \A s \in Range(Retained(Entry(last'.topic))) :
                 /\ Len(chan'[s]) = Len(chan[s]) + 1
                 /\ chan'[s][Len(chan'[s])].msg_id = last'.msg_id
                 /\ chan'[s][Len(chan'[s])].payload = last'.payload
                 /\ chan'[s][Len(chan'[s])].from = last'.from]_vars

\* a subscriber holds two messages of peer 1, the one handled first at the head,
\* and the cache holds them in the order in which they were handled
C29_Witness ==
    /\ IsFirstTime
    /\ \E s \in DOMAIN chan :
          /\ Len(chan[s]) = 2
          /\ chan[s][1].from = 1 /\ chan[s][2].from = 1
          /\ chan[s][1].msg_id # chan[s][2].msg_id
          /\ chan[s][2].msg_id = last.msg_id
          /\ PostState.message_cache[1].msg_id = chan[s][2].msg_id
          /\ PostState.message_cache[2].msg_id = chan[s][1].msg_id

----------------------------------------------------------------------------
(* Sends that fail (under SpecPublish) *)

\* C30: a send that fails during a publish or a forward does not keep the
\* operation from going on: a send is attempted to every eager peer (to every
\* eager peer but the sender for a forward), and a publish whose message is cached
\* appends the id to pending_ihave and delivers the payload to the subscribers
C30_BestEffortSends ==
    /\ (last.op = "publish" /\ has_message(PreState, last.msg_id)) =>
          /\ {f.to : f \in Range(last.sent)} = last.targets
          /\ PostState.pending_ihave = Append(PreState.pending_ihave, last.msg_id)
          /\ chan = AfterDelivery(Range(PreState.subscribers),
                                  [from |-> Self, payload |-> last.payload,
                                   msg_id |-> last.msg_id])
    /\ IsFirstTime =>
          {f.to : f \in Range(last.sent)} = PreState.eager_peers \ {last.from}

\* what publish_local does when a send fails: no send is attempted after the one
\* that failed, and the message stays cached, in no batch and in no channel
SendFailureAsCoded ==
    (last.op = "publish" /\ ~last.ok /\ has_message(PreState, last.msg_id)) =>
        /\ \A i \in 1..Len(last.sent) : last.sent[i].ok <=> i < Len(last.sent)
        /\ has_message(PostState, last.msg_id)
        /\ PostState.pending_ihave = PreState.pending_ihave
        /\ chan = last.pre_chan

----------------------------------------------------------------------------
(* The IHAVE flusher: ids are batched by EAGERs of peers 1 and 2, whose duplicates
   make lazy peers, and by the node's own publish, and the flusher ticks *)

FlushRoom(st) == Len(st.pending_ihave) < MaxFlushPending

NextFlush ==
    /\ UNCHANGED <<memberVars, netVars, shuffleVars, lockVars>>
    /\ \/ \E from \in 1..2, t \in Topics : \E id \in PoolIds(t) :
             /\ has_message(Entry(t), id) \/ FlushRoom(Entry(t))
             /\ handle_eager(from, t, EagerMsg(t, id, 0))
       \/ \E t \in Topics : FlushRoom(Entry(t)) /\ publish_begin(t, "x")
       \/ \E call \in inflight :
             publish_finish(call, [done |-> call.eager_peers, failed |-> NoPeer])
       \/ \E t \in Topics : initialize_topic_peers(t, Neighbours)
       \/ \E down \in SUBSET LazyPeers : ihave_flusher(down)

SpecFlush == Init /\ [][NextFlush]_vars

\* the frames of the step that is taken that are addressed to the peers of `t`
\* (the model has one topic; a frame names its topic in the header)
FlushedFor(t) == SelectSeq(last'.sent, LAMBDA f : f.header.topic = t)

\* what a step does to pending_ihave and what a flush sends; `apart` asks that no
\* IHAVE goes to a peer that is an eager peer of the topic
FlushStep(apart) ==
    IF last'.op = "ihave_flusher"
    THEN \A t \in DOMAIN topics :
            LET st == topics[t]
                n  == Min(Len(st.pending_ihave), IHaveBatchCap)
                batch == SubSeq(st.pending_ihave, 1, n)
                frames == FlushedFor(t)
            IN  /\ t \in DOMAIN topics'
                /\ topics'[t].pending_ihave =
                       SubSeq(st.pending_ihave, n + 1, Len(st.pending_ihave))
                /\ batch \o topics'[t].pending_ihave = st.pending_ihave
                /\ IF st.pending_ihave = <<>> THEN frames = <<>>
                   ELSE /\ {f.to : f \in Range(frames)} = st.lazy_peers
                        /\ Len(frames) = Cardinality(st.lazy_peers)
                        /\ \A f \in Range(frames) :
                              /\ f.header.kind = "IHave"
                              /\ f.ids = batch
                              /\ Len(f.ids) <= IHaveBatchCap
                              /\ apart => f.to \notin st.eager_peers
    ELSE \A t \in (DOMAIN topics) \cap (DOMAIN topics') :
            /\ Len(topics'[t].pending_ihave) >= Len(topics[t].pending_ihave)
            /\ SubSeq(topics'[t].pending_ihave, 1, Len(topics[t].pending_ihave))
                   = topics[t].pending_ihave

\* C31: a flush takes from every topic the first min(|pending_ihave|, cap) ids, in
\* their order, and leaves the others in their order; it hands the transport one
\* IHAVE with exactly that batch for every lazy peer of the topic and none for an
\* eager peer; no IHAVE carries more than cap ids; and no other step takes an id
\* out of pending_ihave, so an id that was appended is in the batch of one flush
C31_IHaveFlush == [][FlushStep(TRUE)]_vars

\* C31 without "and to no eager peer": what the flusher does do, also for a peer
\* that initialize_topic_peers made eager while it was lazy
IHaveFlushAsCoded == [][FlushStep(FALSE)]_vars

\* a flush has sent a full batch to the lazy peer of a topic that also has an eager
\* peer, and an id has stayed in pending_ihave
FlushedFullBatch ==
    /\ last.op = "ihave_flusher"
    /\ \E t \in DOMAIN topics :
          /\ topics[t].pending_ihave # <<>>
          /\ topics[t].eager_peers # {}
          /\ topics[t].lazy_peers # {}
          /\ last.sent # <<>>
          /\ \A f \in Range(last.sent) :
                Len(f.ids) = IHaveBatchCap /\ f.to \in topics[t].lazy_peers

----------------------------------------------------------------------------
(* The degree of a topic: peers are handed over by the membership layer, pruned by
   duplicates and grafted by IWANTs, and the degree maintainer ticks *)

NextDegree ==
    /\ UNCHANGED <<memberVars, netVars, shuffleVars, lockVars>>
    /\ \/ \E t \in Topics, peers \in SUBSET Peers : initialize_topic_peers(t, peers)
       \/ \E from \in Peers, t \in Topics :
             /\ has_message(Entry(t), RemoteId(t, 1, "x")) \/ PendingRoom(Entry(t))
             /\ handle_eager(from, t, EagerMsg(t, RemoteId(t, 1, "x"), 0))
       \/ \E from \in Peers, t \in Topics :
             handle_iwant(from, t, <<RemoteId(t, 1, "x")>>)
       \/ ihave_flusher({})
       \/ degree_maintainer

SpecDegree == Init /\ [][NextDegree]_vars

\* what a tick of the degree maintainer does to the peer sets of every topic;
\* `apart` restricts the statement to topics whose sets were disjoint
DegreeStep(apart) ==
    last'.op = "degree_maintainer" =>
        \A t \in DOMAIN topics :
            LET e  == topics[t].eager_peers
                l  == topics[t].lazy_peers
                e2 == topics'[t].eager_peers
                l2 == topics'[t].lazy_peers
            IN  (apart => e \cap l = {}) =>
                /\ IF Cardinality(e) < MinEagerDegree /\ l # {}
                   THEN /\ l2 \subseteq l
                        /\ e2 = e \cup (l \ l2)
                        /\ Cardinality(l \ l2) =
                               Min(MinEagerDegree - Cardinality(e), Cardinality(l))
                        /\ Cardinality(e2) =
                               Min(MinEagerDegree, Cardinality(e) + Cardinality(l))
                   ELSE IF Cardinality(e) > MaxEagerDegree
                   THEN /\ e2 \subseteq e
                        /\ l2 = l \cup (e \ e2)
                        /\ Cardinality(e \ e2) = Cardinality(e) - MaxEagerDegree
                        /\ Cardinality(e2) = MaxEagerDegree
                   ELSE e2 = e /\ l2 = l
                /\ e2 \cup l2 = e \cup l
                /\ e \cap l = {} => e2 \cap l2 = {}

\* C32: maintain_degree moves min(MIN - |eager|, |lazy|) peers from lazy to eager
\* when |eager| < MIN and lazy is not empty, so that |eager| becomes
\* min(MIN, |eager| + |lazy|); moves |eager| - MAX peers from eager to lazy when
\* |eager| > MAX, so that |eager| becomes MAX; changes nothing otherwise; and
\* leaves eager \cup lazy as it was and the two sets disjoint
C32_TopicDegree == [][DegreeStep(FALSE)]_vars

\* C32 for the topics whose eager and lazy set had no peer in common: what
\* maintain_degree does do
TopicDegreeAsCoded == [][DegreeStep(TRUE)]_vars

\* a tick has promoted a lazy peer, and a tick has demoted an eager peer
DegreePromoted ==
    /\ last.op = "degree_maintainer"
    /\ \E t \in DOMAIN topics :
          /\ Cardinality(topics[t].eager_peers) = MinEagerDegree
          /\ topics[t].lazy_peers # {}
          /\ topics[t].eager_peers \cap topics[t].lazy_peers = {}

----------------------------------------------------------------------------
(* The tick of the overlay's degree maintenance (under SpecMembership) *)

IsDegreeTick == mlast.op = "degree_maintenance"

\* C33: after a tick that found fewer than the minimum of active peers and a
\* passive peer, the active view has reached the minimum or the passive view is
\* empty; after every tick the active view holds at most MAX_ACTIVE_DEGREE peers,
\* the passive view at most MAX_PASSIVE_DEGREE, and the views are disjoint
C33_OverlayDegreeTick ==
    IsDegreeTick =>
        /\ (Cardinality(mlast.pre_active) < MinActiveDegree /\ mlast.pre_passive # {})
              => (Cardinality(active) = MinActiveDegree \/ passive = {})
        /\ Cardinality(active) <= MaxActiveDegree
        /\ Cardinality(passive) <= MaxPassiveDegree
        /\ active \cap passive = {}

\* the tick as coded: it promotes below DEFAULT_ACTIVE_DEGREE and up to it, it
\* brings the views within their maxima, and it leaves disjoint views disjoint
OverlayDegreeTickAsCoded ==
    IsDegreeTick =>
        /\ (/\ Cardinality(mlast.pre_active) < DefaultActiveDegree
            /\ mlast.pre_passive # {}
            /\ mlast.pre_active \cap mlast.pre_passive = {})
              => (Cardinality(active) = DefaultActiveDegree
                     \/ mlast.pre_passive \subseteq active)
        /\ Cardinality(active) <= MaxActiveDegree
        /\ Cardinality(passive) <= MaxPassiveDegree
        /\ mlast.pre_active \cap mlast.pre_passive = {} => active \cap passive = {}

----------------------------------------------------------------------------
(* Requests that stay unanswered (under SpecIHave) *)

\* the age by which a request has been retried three times, each retry after
\* IWANT_TIMEOUT_SECS at a tick that comes every IWANT_TIMEOUT_SECS, and abandoned
IWantDeadline == IWANT_TIMEOUT_SECS * 2 * (3 + 1)

\* C34: no entry of outstanding_iwants outlives its retries: an entry older than
\* the timeout is sent again, with a new time, or removed at the next tick, and
\* after three retries it is removed
C34_IWantRetry ==
    \A t \in DOMAIN topics : \A id \in DOMAIN topics[t].outstanding_iwants :
        now - topics[t].outstanding_iwants[id].timestamp <= IWantDeadline

\* the requests as coded: an entry keeps the peer and the time of the IHAVE that
\* made it, whatever happens afterwards
OutstandingNeverRetried ==
    [][\A t \in DOMAIN topics : \A id \in DOMAIN topics[t].outstanding_iwants :
          /\ t \in DOMAIN topics'
          /\ id \in DOMAIN topics'[t].outstanding_iwants
          /\ topics'[t].outstanding_iwants[id] = topics[t].outstanding_iwants[id]
      ]_vars

----------------------------------------------------------------------------
(* Calls and ticks followed through their locks. A tokio RwLock is fair: a task
   that asks for it queues, and the lock goes to the head of the queue, to a
   writer when nobody holds it and to a reader when no writer holds it. A task is
   about to ask for a lock ("ask"), waiting for it ("wait"), holding the lock it
   asked for ("in"), or inside transport.send_to_peer ("send"); tasks run on
   several threads, so that any of them may take the next step. *)

\* the operations that ask for read locks; all others ask for write locks
ReadOps == {"shuffle", "shuffle_task", "probe_task"}

Mode(op) == IF op \in ReadOps THEN "r" ELSE "w"

\* the lock an operation asks for first
FirstLock(op) ==
    CASE op \in {"add_active", "remove_active", "shuffle", "shuffle_task",
                 "degree_task"} -> "active"
      [] op = "promote" -> "passive"
      [] op \in {"mark_alive", "mark_suspect", "mark_dead", "probe_task",
                 "suspect_timeout_task"} -> "states"
      [] OTHER -> "topics"

Proc(op, peer, phase, st, want, held, tmp) ==
    [op |-> op, peer |-> peer, phase |-> phase, st |-> st, want |-> want,
     held |-> held, tmp |-> tmp]

ProcsWith(p, rec) ==
    [q \in (DOMAIN procs) \cup {p} |-> IF q = p THEN rec ELSE procs[q]]

ProcsLess(p) == [q \in (DOMAIN procs) \ {p} |-> procs[q]]

HoldersOf(l) == {p \in DOMAIN procs : l \in Range(procs[p].held)}

WritersOf(l) == {p \in HoldersOf(l) : Mode(procs[p].op) = "w"}

Enq(l, p) == [lockq EXCEPT ![l] = Append(@, p)]

\* lock.read().await / lock.write().await can return
CanTake(p) ==
    LET l == procs[p].want
    IN  /\ procs[p].st = "wait"
        /\ lockq[l] # <<>>
        /\ Head(lockq[l]) = p
        /\ IF Mode(procs[p].op) = "w" THEN HoldersOf(l) = {} ELSE WritersOf(l) = {}

\* lock.try_read() succeeds: no writer holds the lock and none waits for it
try_read(l) ==
    /\ WritersOf(l) = {}
    /\ \A i \in 1..Len(lockq[l]) : Mode(procs[lockq[l][i]].op) = "r"

\* the proc goes on to ask for lock l, holding `held`
Waiting(p, phase, l, held, tmp) ==
    /\ procs' = ProcsWith(p, Proc(procs[p].op, procs[p].peer, phase, "ask", l, held, tmp))
    /\ UNCHANGED lockq

\* the proc is inside a send from now on, holding `held`
Sending(p, held) ==
    /\ procs' = ProcsWith(p, [procs[p] EXCEPT !.st = "send", !.held = held])
    /\ UNCHANGED lockq

\* the call returns, or the tick is over
Returned(p) ==
    /\ procs' = ProcsLess(p)
    /\ UNCHANGED lockq

At(p, ops, phase) ==
    /\ procs[p].op \in ops
    /\ procs[p].phase = phase
    /\ procs[p].st = "in"

\* a call is made or a tick starts, and goes on to ask for its first lock
call(op, peer) ==
    LET p == <<op, peer>>
    IN  /\ p \notin DOMAIN procs
        /\ Cardinality(DOMAIN procs) < MaxProcs
        /\ procs' = ProcsWith(p, Proc(op, peer, IF op = "promote" THEN 0 ELSE 1, "ask",
                                      FirstLock(op), <<>>, NoPeer))
        /\ UNCHANGED <<lockq, viewed, active, passive, swim>>

\* lock.read() / lock.write() is polled: the task joins the queue of the lock
lock_ask(p) ==
    /\ procs[p].st = "ask"
    /\ procs' = [procs EXCEPT ![p].st = "wait"]
    /\ lockq' = Enq(procs[p].want, p)
    /\ UNCHANGED <<viewed, active, passive, swim>>

\* the lock that a task waits for is given to it
lock_acquire(p) ==
    /\ CanTake(p)
    /\ procs' = [procs EXCEPT ![p].st = "in", ![p].held = Append(@, procs[p].want)]
    /\ lockq' = [lockq EXCEPT ![procs[p].want] = Tail(@)]
    /\ UNCHANGED <<viewed, active, passive, swim>>

\* add_active under the active lock: a full view gives up a peer, and the passive
\* lock is asked for; otherwise the peer is inserted and the lock dropped
add_active_locked(p) ==
    /\ At(p, {"add_active", "promote"}, 1)
    /\ IF Cardinality(active) >= active_degree /\ active # {}
       THEN \E to_demote \in active :
               /\ active' = active \ {to_demote}
               /\ Waiting(p, 2, "passive", procs[p].held, to_demote)
       ELSE /\ active' = active \cup {procs[p].peer}
            /\ Waiting(p, 3, "states", <<>>, NoPeer)
    /\ UNCHANGED <<viewed, passive, swim>>

\* add_active under both locks: the peer given up goes to the passive view if
\* there is room, the new peer is inserted, both locks are dropped
add_active_demoted(p) ==
    /\ At(p, {"add_active", "promote"}, 2)
    /\ passive' = IF Cardinality(passive) < passive_degree
                  THEN passive \cup {procs[p].tmp} ELSE passive
    /\ active' = active \cup {procs[p].peer}
    /\ Waiting(p, 3, "states", <<>>, NoPeer)
    /\ UNCHANGED <<viewed, swim>>

\* add_active, swim.mark_alive under the states lock
add_active_marked(p) ==
    /\ At(p, {"add_active", "promote"}, 3)
    /\ swim' = mark_alive(swim, procs[p].peer)
    /\ Returned(p)
    /\ UNCHANGED <<viewed, active, passive>>

\* remove_active under the active lock
remove_active_locked(p) ==
    /\ At(p, {"remove_active"}, 1)
    /\ active' = active \ {procs[p].peer}
    /\ IF procs[p].peer \in active
       THEN Waiting(p, 3, "states", <<>>, NoPeer)
       ELSE Returned(p)
    /\ UNCHANGED <<viewed, passive, swim>>

\* remove_active, swim.mark_dead under the states lock
remove_active_marked(p) ==
    /\ At(p, {"remove_active"}, 3)
    /\ swim' = mark_dead(swim, procs[p].peer)
    /\ Returned(p)
    /\ UNCHANGED <<viewed, active, passive>>

\* a promote that calls add_active with the passive lock still held
promote_locked_holding(p) ==
    /\ At(p, {"promote"}, 0)
    /\ passive' = passive \ {procs[p].peer}
    /\ IF procs[p].peer \in passive
       THEN Waiting(p, 1, "active", procs[p].held, NoPeer)
       ELSE Returned(p)
    /\ UNCHANGED <<viewed, active, swim>>

\* promote under the passive lock: the peer leaves the passive view, the lock is
\* dropped, and add_active is called for a peer that was passive
promote_locked(p) ==
    /\ At(p, {"promote"}, 0)
    /\ passive' = passive \ {procs[p].peer}
    /\ IF procs[p].peer \in passive
       THEN Waiting(p, 1, "active", <<>>, NoPeer)
       ELSE Returned(p)
    /\ UNCHANGED <<viewed, active, swim>>

\* shuffle, the shuffle task and the degree task have the active lock and ask for
\* the passive lock
views_locked_first(p) ==
    /\ At(p, {"shuffle", "shuffle_task", "degree_task"}, 1)
    /\ Waiting(p, 2, "passive", procs[p].held, NoPeer)
    /\ UNCHANGED <<viewed, active, passive, swim>>

\* shuffle under both locks: with no active peer it returns; otherwise the target
\* and the peers to exchange are taken, the locks dropped and the frame sent
shuffle_locked(p) ==
    /\ At(p, {"shuffle"}, 2)
    /\ IF active = {} THEN Returned(p) ELSE Sending(p, <<>>)
    /\ UNCHANGED <<viewed, active, passive, swim>>

\* the shuffle task under both locks: it looks at the views and drops the locks
shuffle_task_locked(p) ==
    /\ At(p, {"shuffle_task"}, 2)
    /\ Returned(p)
    /\ UNCHANGED <<viewed, active, passive, swim>>

\* the degree maintenance task under both locks
degree_task_locked(p) ==
    /\ At(p, {"degree_task"}, 2)
    /\ degree_maintenance_views
    /\ Returned(p)
    /\ UNCHANGED <<viewed, swim>>

\* mark_alive, mark_suspect, mark_dead and the suspect timeout task under the
\* states lock
states_locked(p) ==
    /\ At(p, {"mark_alive", "mark_suspect", "mark_dead", "suspect_timeout_task"}, 1)
    /\ swim' = CASE procs[p].op = "mark_alive" -> mark_alive(swim, procs[p].peer)
                 [] procs[p].op = "mark_suspect" -> mark_suspect(swim, procs[p].peer)
                 [] procs[p].op = "mark_dead" -> mark_dead(swim, procs[p].peer)
                 [] OTHER -> [peer \in DOMAIN swim |->
                                IF peer \in to_mark_dead(swim)
                                THEN [state |-> "Dead", last_update |-> now]
                                ELSE swim[peer]]
    /\ Returned(p)
    /\ UNCHANGED <<viewed, active, passive>>

\* the probe task under the states lock: the Alive peers are collected, the lock
\* is dropped, and a PING is sent if there is one
probe_task_locked(p) ==
    /\ At(p, {"probe_task"}, 1)
    /\ IF get_peers_in_state(swim, "Alive") = {} THEN Returned(p) ELSE Sending(p, <<>>)
    /\ UNCHANGED <<viewed, active, passive, swim>>

\* transport.send_to_peer returns to shuffle or to the probe task
membership_sent(p) ==
    /\ procs[p].op \in {"shuffle", "probe_task"}
    /\ procs[p].st = "send"
    /\ Returned(p)
    /\ UNCHANGED <<viewed, active, passive, swim>>

\* Membership::active_view
active_view ==
    /\ viewed' = [op |-> "active_view",
                  result |-> IF try_read("active") THEN active ELSE {},
                  content |-> active]
    /\ UNCHANGED <<procs, lockq, active, passive, swim>>

\* Membership::passive_view
passive_view ==
    /\ viewed' = [op |-> "passive_view",
                  result |-> IF try_read("passive") THEN passive ELSE {},
                  content |-> passive]
    /\ UNCHANGED <<procs, lockq, active, passive, swim>>

\* the calls with a peer, and the ticks and calls without
PeerCalls == {"add_active", "remove_active", "promote", "mark_suspect"}
Ticks == {"shuffle", "shuffle_task", "degree_task", "probe_task",
          "suspect_timeout_task"}

LockFrame ==
    UNCHANGED <<pubsubVars, netVars, shuffleVars, active_degree, passive_degree,
                promoting, mlast>>

\* a node made with new(DEFAULT_ACTIVE_DEGREE - 1, ..): its active view is full
\* with one peer
InitLocks ==
    /\ PubSubInit
    /\ NetIdle
    /\ ShuffleIdle
    /\ LockIdle
    /\ HyParViewMembership_new(DefaultActiveDegree - 1, MaxPassiveDegree)

NextLocks ==
    /\ LockFrame
    /\ \/ \E op \in PeerCalls, peer \in SwimPeers : call(op, peer)
       \/ \E op \in Ticks : call(op, NoPeer)
       \/ \E p \in DOMAIN procs : lock_ask(p)
       \/ \E p \in DOMAIN procs : lock_acquire(p)
       \/ \E p \in DOMAIN procs : add_active_locked(p)
       \/ \E p \in DOMAIN procs : add_active_demoted(p)
       \/ \E p \in DOMAIN procs : add_active_marked(p)
       \/ \E p \in DOMAIN procs : remove_active_locked(p)
       \/ \E p \in DOMAIN procs : remove_active_marked(p)
       \/ \E p \in DOMAIN procs : promote_locked(p)
       \/ \E p \in DOMAIN procs : views_locked_first(p)
       \/ \E p \in DOMAIN procs : shuffle_locked(p)
       \/ \E p \in DOMAIN procs : shuffle_task_locked(p)
       \/ \E p \in DOMAIN procs : degree_task_locked(p)
       \/ \E p \in DOMAIN procs : states_locked(p)
       \/ \E p \in DOMAIN procs : probe_task_locked(p)
       \/ \E p \in DOMAIN procs : membership_sent(p)

SpecLocks == InitLocks /\ [][NextLocks]_vars

\* the views are read while peers are added and promoted and the degree task ticks
NextViews ==
    /\ LockFrame
    /\ \/ \E op \in {"add_active", "promote"}, peer \in SwimPeers : call(op, peer)
       \/ call("degree_task", NoPeer)
       \/ \E p \in DOMAIN procs : lock_ask(p)
       \/ \E p \in DOMAIN procs : lock_acquire(p)
       \/ \E p \in DOMAIN procs : add_active_locked(p)
       \/ \E p \in DOMAIN procs : add_active_demoted(p)
       \/ \E p \in DOMAIN procs : add_active_marked(p)
       \/ \E p \in DOMAIN procs : promote_locked(p)
       \/ \E p \in DOMAIN procs : views_locked_first(p)
       \/ \E p \in DOMAIN procs : degree_task_locked(p)
       \/ active_view
       \/ passive_view

SpecViews == InitLocks /\ [][NextViews]_vars

\* peers are added and removed in a view that has room for them
NextAgree ==
    /\ LockFrame
    /\ \/ \E op \in {"add_active", "remove_active"}, peer \in SwimPeers : call(op, peer)
       \/ \E p \in DOMAIN procs : lock_ask(p)
       \/ \E p \in DOMAIN procs : lock_acquire(p)
       \/ \E p \in DOMAIN procs : add_active_locked(p)
       \/ \E p \in DOMAIN procs : add_active_marked(p)
       \/ \E p \in DOMAIN procs : remove_active_locked(p)
       \/ \E p \in DOMAIN procs : remove_active_marked(p)

SpecAgree == Init /\ [][NextAgree]_vars

----------------------------------------------------------------------------
(* Properties of the locks of the membership layer *)

\* the tasks a waiting task waits for: those ahead of it in the queue and those
\* that hold the lock in a way that excludes it
Blockers(p) ==
    LET l == procs[p].want
        ahead == {lockq[l][i] : i \in {j \in 1..Len(lockq[l]) :
                                          \A k \in 1..j : lockq[l][k] # p}}
    IN  ahead \cup (IF Mode(procs[p].op) = "w" THEN HoldersOf(l) ELSE WritersOf(l))

\* a set of tasks each of which waits for a task of the set
Deadlocked(S) ==
    /\ S # {}
    /\ \A p \in S : procs[p].st = "wait" /\ Blockers(p) \cap S # {}

\* C37: no set of tasks is deadlocked; a task that holds the active and the
\* passive lock took active first and none asks for active while it holds
\* passive; and a task that holds the states lock holds no other and asks for none
C37_NoDeadlock ==
    /\ \A S \in SUBSET DOMAIN procs : ~Deadlocked(S)
    /\ \A p \in DOMAIN procs :
          LET h == procs[p].held
              asks == procs[p].st \in {"ask", "wait"}
          IN  /\ {"active", "passive"} \subseteq Range(h) => h = <<"active", "passive">>
              /\ (asks /\ procs[p].want = "active") => "passive" \notin Range(h)
              /\ "states" \in Range(h) => (h = <<"states">> /\ ~asks)

\* a task holds both view locks while a promote waits for the passive lock
C37_Witness ==
    \E p, q \in DOMAIN procs :
        /\ procs[p].held = <<"active", "passive">>
        /\ procs[q].op = "promote"
        /\ procs[q].st = "wait"
        /\ procs[q].want = "passive"
        /\ p \in Blockers(q)

----------------------------------------------------------------------------
(* The view and the detector (under SpecAgree) *)

\* no add_active and no remove_active about the peer is under way
Settled(peer) ==
    /\ <<"add_active", peer>> \notin DOMAIN procs
    /\ <<"remove_active", peer>> \notin DOMAIN procs

\* C38: when the add_active and remove_active calls about a peer have returned,
\* the peer is in the active view only if the detector holds it as Alive, and a
\* peer that was removed from the view is held as Dead
C38_ViewAndDetectorAgree ==
    \A peer \in SwimPeers :
        Settled(peer) =>
            /\ peer \in active => get_state(swim, peer) = "Alive"
            /\ (peer \notin active /\ peer \in DOMAIN swim)
                  => get_state(swim, peer) = "Dead"

\* the calls as coded: the step in which add_active returns leaves its peer
\* Alive and the step in which a remove_active that removed its peer returns leaves
\* it Dead, wherever the peer is in the view by then
CallsMarkAsCoded ==
    [][\A peer \in SwimPeers :
          /\ (<<"add_active", peer>> \in DOMAIN procs
                 /\ <<"add_active", peer>> \notin DOMAIN procs')
                => get_state(swim', peer) = "Alive"
          /\ (/\ <<"remove_active", peer>> \in DOMAIN procs
              /\ <<"remove_active", peer>> \notin DOMAIN procs'
              /\ procs[<<"remove_active", peer>>].phase = 3)
                => get_state(swim', peer) = "Dead"]_vars

----------------------------------------------------------------------------
(* Reading the views (under SpecViews) *)

\* C39: active_view() and passive_view() return the contents of the view, also
\* while a task holds or waits for the lock of the view
C39_ViewSnapshot ==
    viewed.op # "none" => viewed.result = viewed.content

\* the reads as coded: the contents of the view when try_read succeeds, and the
\* empty list when a writer holds the lock or waits for it
ViewSnapshotAsCoded ==
    [][viewed'.op # "none" /\ viewed' # viewed =>
          LET l == IF viewed'.op = "active_view" THEN "active" ELSE "passive"
              view == IF viewed'.op = "active_view" THEN active ELSE passive
          IN  viewed'.result = IF try_read(l) THEN view ELSE {}]_vars

----------------------------------------------------------------------------
(* The topics lock and the sends of the pub/sub layer *)

Handlers == {"handle_eager", "handle_ihave", "handle_iwant"}

\* a call of the pub/sub layer is made, or the IHAVE flusher ticks
pubsub_call(op) ==
    /\ op \in {"publish", "handle_eager"} =>
          \A t \in Topics : Entry(t).pending_ihave = <<>>
    /\ call(op, NoPeer)
    /\ UNCHANGED pubsubVars

\* initialize_topic_peers under the topics lock
initialize_locked(p) ==
    /\ At(p, {"initialize_topic_peers"}, 1)
    /\ \E t \in Topics : initialize_topic_peers(t, Neighbours)
    /\ Returned(p)

\* handle_eager, handle_ihave and handle_iwant under the topics lock: the topic is
\* updated and the lock dropped; then the frames, if there are any, are sent
handler_locked(p) ==
    /\ At(p, Handlers, 1)
    /\ \E from \in 1..2, t \in Topics :
          LET id == RemoteId(t, 1, "x")
          IN  CASE procs[p].op = "handle_eager" ->
                      handle_eager(from, t, EagerMsg(t, id, 0))
                [] procs[p].op = "handle_ihave" -> handle_ihave(from, t, <<id>>)
                [] OTHER -> handle_iwant(from, t, <<id>>)
    /\ IF last'.sent # <<>> THEN Sending(p, <<>>) ELSE Returned(p)

\* the sends of a handler are over
handler_sent(p) ==
    /\ procs[p].op \in Handlers
    /\ procs[p].st = "send"
    /\ Returned(p)
    /\ UNCHANGED pubsubVars

\* publish_local, first lock section: the lock is dropped before the sends to the
\* eager peers; with no eager peer the topics lock is asked for again at once
publish_locked(p) ==
    /\ At(p, {"publish"}, 1)
    /\ \E t \in Topics :
          /\ publish_begin(t, "x")
          /\ IF Entry(t).eager_peers # {}
             THEN Sending(p, <<>>)
             ELSE Waiting(p, 2, "topics", <<>>, NoPeer)

\* publish_local, the sends: a failed send returns the error, otherwise the topics
\* lock is asked for again
publish_sent(p) ==
    /\ procs[p].op = "publish"
    /\ procs[p].st = "send"
    /\ \/ /\ Waiting(p, 2, "topics", <<>>, NoPeer)
          /\ UNCHANGED pubsubVars
       \/ /\ \E c \in inflight : \E peer \in c.eager_peers :
                publish_finish(c, [done |-> c.eager_peers \ {peer}, failed |-> peer])
          /\ Returned(p)

\* publish_local, second lock section
publish_second(p) ==
    /\ At(p, {"publish"}, 2)
    /\ \E c \in inflight :
          publish_finish(c, [done |-> c.eager_peers, failed |-> NoPeer])
    /\ Returned(p)

\* a tick of the IHAVE flusher under the topics lock: the guard taken at the top
\* of the tick lives to its end, so the IHAVE frames are sent with the lock held
flusher_locked(p) ==
    /\ At(p, {"ihave_flusher"}, 1)
    /\ IF \E t \in DOMAIN topics : topics[t].pending_ihave # <<>>
       THEN /\ \E down \in {{}, LazyPeers} : ihave_flusher(down)
            /\ IF last'.sent # <<>> THEN Sending(p, <<"topics">>) ELSE Returned(p)
       ELSE /\ Returned(p)
            /\ UNCHANGED pubsubVars

\* the sends of the flusher are over, the tick ends and the guard is dropped
flusher_sent(p) ==
    /\ procs[p].op = "ihave_flusher"
    /\ procs[p].st = "send"
    /\ Returned(p)
    /\ UNCHANGED pubsubVars

NextSends ==
    /\ UNCHANGED <<memberVars, netVars, shuffleVars, viewed>>
    /\ \/ \E op \in Handlers \cup {"publish", "ihave_flusher", "initialize_topic_peers"} :
             pubsub_call(op)
       \/ \E p \in DOMAIN procs : lock_ask(p) /\ UNCHANGED pubsubVars
       \/ \E p \in DOMAIN procs : lock_acquire(p) /\ UNCHANGED pubsubVars
       \/ \E p \in DOMAIN procs : initialize_locked(p)
       \/ \E p \in DOMAIN procs : handler_locked(p)
       \/ \E p \in DOMAIN procs : handler_sent(p)
       \/ \E p \in DOMAIN procs : publish_locked(p)
       \/ \E p \in DOMAIN procs : publish_sent(p)
       \/ \E p \in DOMAIN procs : publish_second(p)
       \/ \E p \in DOMAIN procs : flusher_locked(p)
       \/ \E p \in DOMAIN procs : flusher_sent(p)

SpecSends == Init /\ [][NextSends]_vars

\* C35: no task is inside a send of the transport while it holds the topics lock
\* or the lock of a view
C35_NoLockAcrossSend ==
    \A p \in DOMAIN procs : procs[p].st = "send" => procs[p].held = <<>>

\* publish_local and the three handlers send with no lock held; under SpecLocks
\* this is so for shuffle and the probe task
SendsUnlockedButFlusher ==
    \A p \in DOMAIN procs :
        procs[p].st = "send" /\ procs[p].op # "ihave_flusher" => procs[p].held = <<>>

\* a publish waits for the topics lock that the flusher holds while it sends
PublishWaitsForFlusherSend ==
    \E p, q \in DOMAIN procs :
        /\ procs[p].op = "ihave_flusher" /\ procs[p].st = "send"
        /\ procs[q].op = "publish" /\ procs[q].st = "wait"

----------------------------------------------------------------------------
(* The message cache and the outstanding requests (under SpecIHave) *)

\* C36: no id is at once in the message cache of a topic and in its
\* outstanding_iwants
C36_CachedNotOutstanding ==
    \A t \in DOMAIN topics :
        \A id \in DOMAIN topics[t].outstanding_iwants : ~has_message(topics[t], id)

\* handle_eager as coded: accepting a message leaves outstanding_iwants as it was
EagerKeepsOutstanding ==
    [][last'.op = "handle_eager" /\ last'.topic \in DOMAIN topics =>
          topics'[last'.topic].outstanding_iwants =
              topics[last'.topic].outstanding_iwants]_vars

\* a message was accepted whose id had been requested
AcceptedWhileOutstanding ==
    /\ last.op = "handle_eager"
    /\ last.topic \in DOMAIN topics
    /\ last.msg_id \in DOMAIN topics[last.topic].outstanding_iwants
    /\ has_message(topics[last.topic], last.msg_id)

----------------------------------------------------------------------------
(* The peer sets of a topic as a whole *)

\* peers are set up, frames come from peers of the topic and from others, the
\* background tasks tick, and the topic is dropped
NextPeers ==
    /\ UNCHANGED <<memberVars, netVars, shuffleVars, lockVars>>
    /\ \/ \E t \in Topics, peers \in SUBSET Peers : initialize_topic_peers(t, peers)
       \/ \E from \in Peers, t \in Topics :
             /\ has_message(Entry(t), RemoteId(t, 1, "x")) \/ PendingRoom(Entry(t))
             /\ handle_eager(from, t, EagerMsg(t, RemoteId(t, 1, "x"), 0))
       \/ \E from \in Peers, t \in Topics :
             handle_ihave(from, t, <<RemoteId(t, 1, "y")>>)
       \/ \E from \in Peers, t \in Topics :
             handle_iwant(from, t, <<RemoteId(t, 1, "x")>>)
       \/ \E down \in {{}, LazyPeers} : ihave_flusher(down)
       \/ degree_maintainer
       \/ \E t \in Topics : unsubscribe(t)

SpecPeers == Init /\ [][NextPeers]_vars

PeerUnion(st) == st.eager_peers \cup st.lazy_peers

\* C40: prune_peer of a peer that is not eager and graft_peer of a peer that is not
\* lazy change nothing, and the union of the eager and the lazy peers of a topic
\* is changed by initialize_topic_peers and unsubscribe only: no other step adds a
\* peer to it or drops one from it
C40_PeerSetFrame ==
    [][/\ \A t \in DOMAIN topics : \A peer \in Peers :
             /\ peer \notin topics[t].eager_peers =>
                   prune_peer(topics[t], peer) = topics[t]
             /\ peer \notin topics[t].lazy_peers =>
                   graft_peer(topics[t], peer) = topics[t]
       /\ \A t \in Topics :
             PeerUnion(IF t \in DOMAIN topics' THEN topics'[t] ELSE TopicState_new)
                 # PeerUnion(Entry(t))
             => last'.op \in {"initialize_topic_peers", "unsubscribe"}
      ]_vars

\* a message was sent in answer to the IWANT of a peer that is in neither set
C40_Witness ==
    /\ last.op = "handle_iwant"
    /\ last.sent # <<>>
    /\ last.topic \in DOMAIN topics
    /\ PeerUnion(topics[last.topic]) # {}
    /\ last.from \notin PeerUnion(topics[last.topic])

====
